---- MODULE Spec2Model ----
(***************************************************************************)
(* A model of dbeel's per-shard storage engine (src/src/lsm_tree.rs): the  *)
(* LSM tree with its memtables, write-ahead log, SSTable files, flush,     *)
(* compaction with an intent file, and recovery in open_or_create.         *)
(*                                                                         *)
(* Keys and values are small integers; the empty byte string (TOMBSTONE)   *)
(* is 0.  Every WAL record occupies one page, so a WAL file is a sequence  *)
(* of page slots.  An SSTable is a pair of files: the data file is the     *)
(* sequence of its entries, the index file is the number of fixed-width    *)
(* EntryOffset records it holds (record j points at data entry j).         *)
(***************************************************************************)
EXTENDS Integers, Sequences, FiniteSets, TLC

\* ------------------------------------------------------------------ bounds
MaxKey == 4
MaxVal == 1
MaxSets == 4
MaxCompactions == 1
MaxIndex == 5
MaxCrashes == 1
MaxTimestamp == 2
MaxEntries == 3
MaxRecords == 3
MaxInputs == 3
MaxPublishSets == 1
MaxNodes == 3
MaxHash == 2
MaxReplication == 4
MaxEntrySize == 9

\* PAGE_SIZE is 4096 and INDEX_ENTRY_SIZE is 16 in the source; they are
\* scaled down here.
PAGE_SIZE == 4
INDEX_ENTRY_SIZE == 2

\* TREE_CAPACITY is 4096 in the source; it is scaled down here.
TREE_CAPACITY == 5
SmallCapacity == 2
SmallMaxKey == 2
SmallMaxSets == 3
MaxTasks == 2
MaxTaskSets == 4
TOMBSTONE == 0

Keys == 1..MaxKey
Vals == 0..MaxVal
Unknown == 0 - 1
None == [kind |-> "none"]
Err == [kind |-> "error"]
Some(v) == [kind |-> "some", v |-> v]

Max(a, b) == IF a >= b THEN a ELSE b
Min(a, b) == IF a <= b THEN a ELSE b
Range(s) == {s[i] : i \in 1..Len(s)}

\* ---------------------------------------------------------------- memtable
\* MemTable = RedBlackTree<RcBytes, EntryValue>: a map from keys to
\* (data, timestamp); iteration is in ascending key order.
EmptyMemtable == << >>

EntryValue(data, timestamp) == [data |-> data, timestamp |-> timestamp]

Entry(key, value) == [key |-> key, value |-> value]

MemtableSet(m, key, value) ==
    [k \in (DOMAIN m) \cup {key} |-> IF k = key THEN value ELSE m[k]]

RECURSIVE SortedKeys(_)
SortedKeys(S) ==
    IF S = {} THEN << >>
    ELSE LET lo == CHOOSE x \in S : \A y \in S : x <= y
         IN <<lo>> \o SortedKeys(S \ {lo})

\* memtable.iter() / into_iter(): the entries in ascending key order.
MemtableEntries(m) ==
    LET ks == SortedKeys(DOMAIN m)
    IN [i \in 1..Len(ks) |-> Entry(ks[i], m[ks[i]])]

\* ----------------------------------------------------------- binary search
RECURSIVE BSLoop(_, _, _, _, _, _)
BSLoop(key, f, n, half, lind, hind) ==
    IF lind > hind THEN None
    ELSE IF half + 1 > Len(f.data) THEN Err
    ELSE LET value == f.data[half + 1]
             l2 == IF value.key < key THEN half + 1 ELSE lind
             h2 == IF value.key > key THEN Max(half, 1) - 1 ELSE hind
             nh == (h2 + l2) \div 2
         IN IF value.key = key THEN Some(value)
            ELSE IF half = 0 \/ half = n THEN None
            ELSE IF nh >= f.index THEN Err
            ELSE BSLoop(key, f, n, nh, l2, h2)

\* LSMTree::binary_search over the files f of one SSTable whose recorded
\* size is n.  With n = 0 the subtraction n - 1 overflows (a panic in a
\* debug build) and the first index read is past the end of the file.
binary_search(key, f, n) ==
    IF n = 0 THEN Err
    ELSE IF n \div 2 >= f.index THEN Err
    ELSE BSLoop(key, f, n, n \div 2, 0, n - 1)

\* ------------------------------------------------------------------- state
VARIABLES
    tree,      \* the LSMTree struct (its fields, by their names in the source)
    disk,      \* the files of the tree's directory
    client,    \* the task calling set, delete and get, one call at a time
    caller,    \* the task calling flush()
    spawned,   \* detached background flush tasks that have not yet entered flush
    flusher,   \* the flush that is past its wait loop, and how far it got
    compactor, \* the task running compact
    running,   \* the task inside a synchronous section (no await): it runs on
    clock,     \* OffsetDateTime::now_utc(), one tick per set
    hist,      \* history: what the checks of the properties need to remember
    conf,      \* the configuration of the run: capacity, key range, scheduling
    writer,    \* an EntryWriter on its own: its buffers, its streams, the page cache
    dbclient,  \* a DbeelClient, the request it is sending and what it has contacted
    wal        \* one WAL file by its pages, the sets appending to it, its replay

vars == <<tree, disk, client, caller, spawned, flusher, compactor, running, clock, hist, conf, writer, dbclient, wal>>

\* No call and no background task in flight, but for reads.
Quiescent ==
    /\ client.pc \in {"idle", "get_probe", "got"} /\ caller.pc = "idle"
    /\ spawned = 0 /\ flusher.pc = "none" /\ compactor.pc = "idle"

\* conf.overlap = "all": a call may start at any time.  "reads": a set, a
\* flush or a compaction starts when every earlier one, and every flush it
\* spawned, has finished; reads overlap them.
MayCall == conf.overlap = "all" \/ Quiescent

SSTable(index, size) == [index |-> index, size |-> size]

NoFiles == << >>

EmptyDisk ==
    [memtable |-> NoFiles,        \* {index}.memtable: sequence of page slots
     data |-> NoFiles,            \* {index}.data: sequence of entries
     index |-> NoFiles,           \* {index}.index: number of EntryOffset records
     compact_data |-> NoFiles,    \* {index}.compact_data
     compact_index |-> NoFiles,   \* {index}.compact_index
     compact_action |-> NoFiles]  \* {index}.compact_action

\* A file map with file i created or replaced / removed.
WithFile(files, i, content) ==
    [j \in (DOMAIN files) \cup {i} |-> IF j = i THEN content ELSE files[j]]

WithoutFile(files, i) == [j \in (DOMAIN files) \ {i} |-> files[j]]

\* The files of SSTable i as binary_search reads them.
SSTableFiles(d, i) == [data |-> d.data[i], index |-> d.index[i]]

\* ------------------------------------------------------------- EntryWriter
NoWriter == [open |-> FALSE]

\* [0; PAGE_SIZE]
ZeroPage == [j \in 1..PAGE_SIZE |-> 0]

\* One side of an EntryWriter (data or index): its page buffer, its count of
\* bytes written, and the pages it has put in the page cache, by offset.
NewSide == [buf |-> ZeroPage, written |-> 0, cache |-> << >>]

\* page_cache.set((ext, files_index), offset, page): the page is kept under
\* the offset, in place of an earlier one.
PageCacheSet(cache, offset, page) ==
    [o \in DOMAIN cache \cup {offset} |-> IF o = offset THEN page ELSE cache[o]]

\* The offset that follows a page that has just been filled.
NextPageOffset(written) == written

\* The offset under which a page that has just been filled is cached.
FilledPageOffset(written) == written - PAGE_SIZE

\* The body of the loop of write_to_cache for one chunk.
WriteChunk(w, chunk) ==
    LET data_buf_offset == w.written % PAGE_SIZE
        end == Min(data_buf_offset + Len(chunk), PAGE_SIZE)
        written_first_copy == end - data_buf_offset
        buf1 == [j \in 1..PAGE_SIZE |->
                    IF data_buf_offset < j /\ j <= end
                    THEN chunk[j - data_buf_offset] ELSE w.buf[j]]
        written1 == w.written + written_first_copy
        left == Len(chunk) - written_first_copy
    IN IF written1 % PAGE_SIZE = 0
       THEN [buf |-> [j \in 1..PAGE_SIZE |->
                         IF j <= left THEN chunk[written_first_copy + j] ELSE 0],
             written |-> written1 + left,
             cache |-> PageCacheSet(w.cache, FilledPageOffset(written1), buf1)]
       ELSE [w EXCEPT !.buf = buf1, !.written = written1]

\* EntryWriter::write_to_cache: bytes.chunks(PAGE_SIZE), one after another.
RECURSIVE write_to_cache(_, _)
write_to_cache(w, bytes) ==
    IF Len(bytes) = 0 THEN w
    ELSE LET n == Min(Len(bytes), PAGE_SIZE)
         IN write_to_cache(WriteChunk(w, SubSeq(bytes, 1, n)),
                           SubSeq(bytes, n + 1, Len(bytes)))

\* The part of EntryWriter::close that writes the trailing partial page.
CloseSide(w) ==
    LET left == w.written % PAGE_SIZE
    IN IF left # 0
       THEN [w EXCEPT !.cache = PageCacheSet(@, w.written - left, w.buf)]
       ELSE w

\* bincode serialize of entry number n whose encoding takes size bytes: no
\* byte is zero and no two bytes written by one writer are equal.
SerializeEntry(n, size) == [j \in 1..size |-> 100 * n + j]

\* bincode serialize of an EntryOffset: INDEX_ENTRY_SIZE bytes, fixed width.
SerializeEntryOffset(entry_offset, entry_size) ==
    [j \in 1..INDEX_ENTRY_SIZE |->
        IF j = 1 THEN 1000 + entry_offset ELSE 2000 + 10 * entry_size + j]

\* EntryWriter::new
EntryWriterNew ==
    [open |-> TRUE, closed |-> FALSE, entries |-> 0,
     data |-> NewSide, index |-> NewSide,
     data_writer |-> << >>, index_writer |-> << >>]

\* EntryWriter::write of an entry whose encoding takes size bytes.
EntryWrite(size) ==
    /\ writer.open /\ ~writer.closed
    /\ writer.entries < MaxEntries
    /\ LET data_encoded == SerializeEntry(writer.entries + 1, size)
           index_encoded == SerializeEntryOffset(writer.data.written, size)
       IN writer' = [writer EXCEPT
              !.entries = @ + 1,
              !.data_writer = @ \o data_encoded,
              !.index_writer = @ \o index_encoded,
              !.data = write_to_cache(@, data_encoded),
              !.index = write_to_cache(@, index_encoded)]
    /\ UNCHANGED <<tree, disk, client, caller, spawned, flusher, compactor, running, clock, hist, conf, dbclient, wal>>

\* EntryWriter::close
EntryClose ==
    /\ writer.open /\ ~writer.closed
    /\ writer' = [writer EXCEPT !.closed = TRUE,
                                !.data = CloseSide(@),
                                !.index = CloseSide(@)]
    /\ UNCHANGED <<tree, disk, client, caller, spawned, flusher, compactor, running, clock, hist, conf, dbclient, wal>>

\* ------------------------------------------------------------- DbeelClient
NoClient == [pc |-> "none"]

Addresses == 1..MaxNodes
Hashes == 0..MaxHash

\* The shards in the order in which they were pushed.
AsPushed(pushed) == {pushed}

\* hash_ring.sort_unstable_by_key(|s| s.hash): the shards pushed, in an order
\* ascending by hash; shards of equal hash in any order.
sort_unstable_by_key(pushed) ==
    {r \in [1..Len(pushed) -> Range(pushed)] :
        /\ \A x \in Range(pushed) :
               Cardinality({i \in 1..Len(r) : r[i] = x})
                   = Cardinality({i \in 1..Len(pushed) : pushed[i] = x})
        /\ \A i \in 1..Len(r), j \in 1..Len(r) : i < j => r[i].hash <= r[j].hash}

\* DbeelClient::from_seed_nodes on cluster metadata listing the node
\* addresses nodes, hash giving hash_string of each: the clients it can
\* return.
from_seed_nodes(nodes, hash, replication_factor) ==
    {[pc |-> "idle", hash_ring |-> r, replication_factor |-> replication_factor,
      hash |-> 0, addresses |-> << >>, next |-> 0, errors |-> << >>,
      contacted |-> << >>, result |-> None] :
     r \in sort_unstable_by_key(
               [i \in 1..Len(nodes) |-> [hash |-> hash[nodes[i]], address |-> nodes[i]]])}

\* hash_ring.iter().position(|s| s.hash >= hash).unwrap_or(0), from 0.
Position(hash_ring, hash) ==
    LET at == {i \in 1..Len(hash_ring) : hash_ring[i].hash >= hash}
    IN IF at = {} THEN 0
       ELSE (CHOOSE i \in at : \A j \in at : i <= j) - 1

\* The loop that never stops at a wrap-around.
NoBreak(i, index, position) == FALSE

\* if i > 0 && index == position { break; }
WrappedAround(i, index, position) == i > 0 /\ index = position

\* The loop of send_sharded_request over i in 0..replication_factor.
RECURSIVE OwningShards(_, _, _, _, _)
OwningShards(hash_ring, replication_factor, position, i, owning_shards) ==
    IF i >= replication_factor THEN owning_shards
    ELSE LET index == (position + i) % Len(hash_ring)
         IN IF WrappedAround(i, index, position) THEN owning_shards
            ELSE OwningShards(hash_ring, replication_factor, position, i + 1,
                              Append(owning_shards, hash_ring[index + 1].address))

\* Error::NoAddresses, Error::SendRequestToCluster(errors)
NoAddresses == [kind |-> "error", error |-> "NoAddresses"]
SendRequestToCluster(errors) ==
    [kind |-> "error", error |-> "SendRequestToCluster", errors |-> errors]

\* Only the first error is kept.
KeepFirst(errors, e) == IF errors = << >> THEN <<e>> ELSE errors

\* errors.push(e)
PushError(errors, e) == Append(errors, e)

\* send_sharded_request for a key whose hash is h, up to the first
\* send_buffer of send_request, or to its end when there is no address.
send_sharded_request(h) ==
    /\ dbclient.pc \in {"idle", "done"}
    /\ LET position == Position(dbclient.hash_ring, h)
           owning_shards == OwningShards(dbclient.hash_ring,
                                dbclient.replication_factor, position, 0, << >>)
       IN dbclient' = [dbclient EXCEPT
              !.hash = h,
              !.addresses = owning_shards,
              !.next = 1,
              !.errors = << >>,
              !.contacted = << >>,
              !.pc = IF owning_shards = << >> THEN "done" ELSE "sending",
              !.result = IF owning_shards = << >> THEN NoAddresses ELSE None]
    /\ UNCHANGED <<tree, disk, client, caller, spawned, flusher, compactor, running, clock, hist, conf, writer, wal>>

\* One turn of the loop of send_request: send_buffer to the next address
\* answers, and the response is returned, or it fails with the error of
\* kind e, which is pushed; after the last address the errors are returned.
send_buffer(ok, e) ==
    /\ dbclient.pc = "sending"
    /\ LET address == dbclient.addresses[dbclient.next]
           errors == PushError(dbclient.errors, [kind |-> e, address |-> address])
       IN dbclient' = [dbclient EXCEPT
              !.contacted = Append(@, [address |-> address, ok |-> ok, kind |-> e]),
              !.next = IF ok THEN @ ELSE @ + 1,
              !.errors = IF ok THEN @ ELSE errors,
              !.pc = IF ok \/ dbclient.next = Len(dbclient.addresses)
                     THEN "done" ELSE "sending",
              !.result = IF ok THEN Some([from |-> address])
                         ELSE IF dbclient.next = Len(dbclient.addresses)
                              THEN SendRequestToCluster(errors)
                              ELSE None]
    /\ UNCHANGED <<tree, disk, client, caller, spawned, flusher, compactor, running, clock, hist, conf, writer, wal>>

\* ------------------------------------------------------- the WAL, by pages
NoWal == [open |-> FALSE]

\* A page of zeros; a page of the encoding of record rec, its part-th.
ZeroPg == [rec |-> 0, part |-> 0]
RecordPage(rec, part) == [rec |-> rec, part |-> part]

\* s rounded to the multiple of PAGE_SIZE that is not below it.
RoundUp(entry_size) ==
    ((entry_size + PAGE_SIZE - 1) \div PAGE_SIZE) * PAGE_SIZE

\* entry_size + PAGE_SIZE - entry_size % PAGE_SIZE
size_padded(entry_size) == entry_size + PAGE_SIZE - (entry_size % PAGE_SIZE)

\* The pages that hold bytes of an encoding of entry_size bytes.
DataPages(entry_size) == (entry_size + PAGE_SIZE - 1) \div PAGE_SIZE

\* The offset that follows the last of one page.
OnePageOn(offset, padded) == offset + PAGE_SIZE

\* self.wal_offset.set(offset + size_padded)
ReserveOffset(offset, padded) == offset + padded

\* file.write_at(buf, offset): the buffer holds the encoding of record rec
\* and then zeros; the file grows, with zeros, up to the end of the buffer.
WriteAt(file, offset, rec, entry_size) ==
    LET start == offset \div PAGE_SIZE
        np == size_padded(entry_size) \div PAGE_SIZE
    IN [i \in 1..Max(Len(file), start + np) |->
           IF start < i /\ i <= start + np
           THEN IF i - start <= DataPages(entry_size)
                THEN RecordPage(rec, i - start) ELSE ZeroPg
           ELSE IF i <= Len(file) THEN file[i] ELSE ZeroPg]

\* A tree on a WAL file still empty.
WalNew ==
    [open |-> TRUE, closed |-> FALSE, file |-> << >>, wal_offset |-> 0,
     memtable |-> EmptyMemtable, records |-> << >>, pending |-> {},
     reordered |-> FALSE, recovered |-> None]

\* LSMTree::set up to the await of write_at in write_to_wal: the memtable
\* insert, the padded size, the offset taken and wal_offset advanced.  The
\* encoding of the entry takes entry_size bytes.
WalSet(key, data, entry_size) ==
    /\ wal.open /\ ~wal.closed
    /\ Len(wal.records) < MaxRecords
    /\ LET value == EntryValue(data, Len(wal.records) + 1)
           offset == wal.wal_offset
           next == ReserveOffset(offset, size_padded(entry_size))
       IN wal' = [wal EXCEPT
              !.memtable = MemtableSet(@, key, value),
              !.wal_offset = next,
              !.records = Append(@, [key |-> key, value |-> value,
                                     size |-> entry_size, offset |-> offset,
                                     advance |-> next - offset]),
              !.pending = @ \cup {Len(wal.records) + 1}]
    /\ UNCHANGED <<tree, disk, client, caller, spawned, flusher, compactor, running, clock, hist, conf, writer, dbclient>>

\* The write_at of the set that appended record n completes.
WalWriteAt(n) ==
    /\ wal.open /\ ~wal.closed
    /\ n \in wal.pending
    /\ wal' = [wal EXCEPT
           !.file = WriteAt(@, wal.records[n].offset, n, wal.records[n].size),
           !.pending = @ \ {n},
           !.reordered = @ \/ \E m \in wal.pending : m < n]
    /\ UNCHANGED <<tree, disk, client, caller, spawned, flusher, compactor, running, clock, hist, conf, writer, dbclient>>

\* The process stops.  The writes not completed are lost, but that the last
\* record, when the file ends where it begins, may be left with the first
\* torn of its pages.
WalCrash(torn) ==
    /\ wal.open /\ ~wal.closed
    /\ LET n == Len(wal.records)
       IN IF torn = 0 THEN wal' = [wal EXCEPT !.closed = TRUE, !.pending = {}]
          ELSE /\ n \in wal.pending
               /\ wal.records[n].offset = Len(wal.file) * PAGE_SIZE
               /\ torn < DataPages(wal.records[n].size)
               /\ wal' = [wal EXCEPT
                      !.closed = TRUE, !.pending = {},
                      !.file = @ \o [j \in 1..torn |-> RecordPage(n, j)]]
    /\ UNCHANGED <<tree, disk, client, caller, spawned, flusher, compactor, running, clock, hist, conf, writer, dbclient>>

\* The offset of the next page boundary after pos:
\* pos + PAGE_SIZE - pos % PAGE_SIZE.
NextBoundary(pos) == pos + PAGE_SIZE - (pos % PAGE_SIZE)

\* Every byte of the encoding of the record that begins at pos is in the file.
RecordComplete(file, records, pos) ==
    LET first == pos \div PAGE_SIZE + 1
        n == file[first].rec
    IN \A j \in 1..DataPages(records[n].size) :
           /\ first + j - 1 <= Len(file)
           /\ file[first + j - 1] = RecordPage(n, j)

\* What a page of a value's bytes read as the start of a record may decode to.
StrayEntries ==
    {Entry(k, EntryValue(v, 0)) : k \in 1..SmallMaxKey, v \in Vals}

\* The loop of read_memtable_from_wal_file over the buffer of the whole
\* file, the cursor at pos: the memtables it can end with.  deserialize_from
\* of a whole record gives its entry and leaves the cursor at its end.  On a
\* record cut by the end of the file it fails, and the cursor is left in the
\* page or at the end of the buffer.  On a page of zeros, and on a page from
\* inside a record, it fails or gives an entry, the cursor within the page.
RECURSIVE WalkWal(_, _, _, _)
WalkWal(file, records, pos, memtable) ==
    IF pos >= Len(file) * PAGE_SIZE THEN {memtable}
    ELSE LET page == file[pos \div PAGE_SIZE + 1]
             skip == WalkWal(file, records, NextBoundary(pos), memtable)
         IN IF page.rec = 0
            THEN skip \cup WalkWal(file, records, NextBoundary(pos),
                             MemtableSet(memtable, 0, EntryValue(TOMBSTONE, 0)))
            ELSE IF page.part = 1 /\ RecordComplete(file, records, pos)
            THEN WalkWal(file, records,
                         NextBoundary(pos + records[page.rec].size),
                         MemtableSet(memtable, records[page.rec].key,
                                     records[page.rec].value))
            ELSE IF page.part = 1
            THEN skip \cup {memtable}
            ELSE skip \cup {memtable}
                 \cup UNION {WalkWal(file, records, NextBoundary(pos),
                                     MemtableSet(memtable, e.key, e.value)) :
                             e \in StrayEntries}

\* read_memtable_from_wal_file on the file the stopped process left.
WalRecover ==
    /\ wal.open /\ wal.closed /\ wal.recovered = None
    /\ \E m \in WalkWal(wal.file, wal.records, 0, EmptyMemtable) :
           wal' = [wal EXCEPT !.recovered = Some(m)]
    /\ UNCHANGED <<tree, disk, client, caller, spawned, flusher, compactor, running, clock, hist, conf, writer, dbclient>>

\* ---------------------------------------------------------------- get_entry
\* The SSTable probes of get_entry over a cloned list, from position pos
\* down to 1 (newest to oldest): opening a missing file is an error.
RECURSIVE ProbeFrom(_, _, _, _)
ProbeFrom(d, list, pos, key) ==
    IF pos = 0 THEN None
    ELSE LET i == list[pos].index
         IN IF i \notin DOMAIN d.data \/ i \notin DOMAIN d.index THEN Err
            ELSE LET r == binary_search(key, SSTableFiles(d, i), list[pos].size)
                 IN IF r.kind = "none" THEN ProbeFrom(d, list, pos - 1, key)
                    ELSE IF r.kind = "error" THEN Err
                    ELSE Some(r.v.value)

\* LSMTree::get_entry run without interruption in tree t over disk d.
get_entry(t, d, key) ==
    IF key \in DOMAIN t.active_memtable THEN Some(t.active_memtable[key])
    ELSE IF t.flush_memtable.kind = "some" /\ key \in DOMAIN t.flush_memtable.v
         THEN Some(t.flush_memtable.v[key])
    ELSE ProbeFrom(d, t.sstables, Len(t.sstables), key)

\* LSMTree::get: the entry's data, whatever it is.
GetOfEntry(r) == IF r.kind = "some" THEN Some(r.v.data) ELSE r

get(t, d, key) == GetOfEntry(get_entry(t, d, key))

\* A memtable that is never taken for full.
NeverFull(t) == FALSE

memtable_full(t) == Cardinality(DOMAIN t.active_memtable) = t.capacity

sstable_indices(t) == [i \in 1..Len(t.sstables) |-> t.sstables[i].index]

\* ------------------------------------------------------- flush, the steps
NoFlush == [pc |-> "none"]

\* The index that follows i.
IndexAfter(i) == i + 1

\* self.memtable_index.set(self.memtable_index.get() + 2)
NextWalIndex(i) == i + 2

\* flush, from the end of its wait loop to its first suspension: the active
\* memtable moves to the flushing slot and the WAL index advances.
FlushSwap(t) ==
    [t EXCEPT !.flush_memtable = Some(t.active_memtable),
              !.active_memtable = EmptyMemtable,
              !.memtable_index = NextWalIndex(@)]

\* DmaFile::create of the next WAL has completed: the handle and the offset
\* are replaced.
FlushCreateWalTree(t) ==
    [t EXCEPT !.wal_file = t.memtable_index, !.wal_offset = 0]

FlushCreateWalDisk(t, d) ==
    [d EXCEPT !.memtable = WithFile(@, t.memtable_index, << >>)]

\* DmaFile::create of the data and index files of the SSTable being written.
FlushCreateFilesDisk(t, d) ==
    [d EXCEPT !.data = WithFile(@, t.write_sstable_index, << >>),
              !.index = WithFile(@, t.write_sstable_index, 0)]

\* EntryWriter::write: one entry appended to the data file and its
\* EntryOffset to the index file.
WriteEntryDisk(d, i, entry) ==
    [d EXCEPT !.data = WithFile(@, i, Append(d.data[i], entry)),
              !.index = WithFile(@, i, d.index[i] + 1)]

\* The flushing slot cleared and nothing else.
ClearSlot(t, items_written) == [t EXCEPT !.flush_memtable = None]

\* The end of flush, which runs without suspension: the flushing slot is
\* cleared, the list with the new SSTable is published, write_sstable_index
\* advances.
FlushFinishTree(t, items_written) ==
    [t EXCEPT !.flush_memtable = None,
              !.sstables = Append(@, SSTable(t.write_sstable_index, items_written)),
              !.rc = @ + 1,
              !.write_sstable_index = @ + 2]

\* std::fs::remove_file(&flush_wal_path)
FlushFinishDisk(d, flush_wal) ==
    [d EXCEPT !.memtable = WithoutFile(@, flush_wal)]

\* flush_memtable_to_disk: every entry of the vector written in order.
RECURSIVE WriteEntries(_, _, _, _)
WriteEntries(d, i, vec, j) ==
    IF j > Len(vec) THEN d
    ELSE WriteEntries(WriteEntryDisk(d, i, vec[j]), i, vec, j + 1)

\* LSMTree::flush run from its swap to its end without another task in
\* between, on the tree and directory of the record w.
RunFlush(w) ==
    LET t1 == FlushSwap(w.tree)
        d1 == FlushCreateWalDisk(t1, w.disk)
        t2 == FlushCreateWalTree(t1)
        d2 == FlushCreateFilesDisk(t2, d1)
        vec == MemtableEntries(t2.flush_memtable.v)
        d3 == WriteEntries(d2, t2.write_sstable_index, vec, 1)
    IN [tree |-> FlushFinishTree(t2, Len(vec)),
        disk |-> FlushFinishDisk(d3, w.tree.memtable_index)]

\* --------------------------------------------------------------------- set
Idle == [pc |-> "idle"]

NoCrash == [kind |-> "none"]

\* LSMTree::set up to its first suspension: the memtable insert, and the part
\* of write_to_wal that runs before write_at is awaited (the clone of the
\* WAL handle and the reservation of the offset).
SetInsert(t, key, value) ==
    [t EXCEPT !.active_memtable = MemtableSet(@, key, value),
              !.wal_offset = @ + 1]

\* file.write_at(buf, offset) on the handle the set cloned: the page lands in
\* the file the handle was opened on, if that file is still in the directory.
WalWrite(d, file, offset, entry) ==
    IF file \notin DOMAIN d.memtable THEN d
    ELSE [d EXCEPT !.memtable = WithFile(@, file,
             IF offset < Len(d.memtable[file])
             THEN [d.memtable[file] EXCEPT ![offset + 1] = entry]
             ELSE Append(d.memtable[file], entry))]

\* LSMTree::set run to its end on the tree and directory of the record w,
\* the flush it spawns run to its end before anything else happens.
RunSet(w, key, value) ==
    LET t2 == SetInsert(w.tree, key, value)
        w2 == [tree |-> t2,
               disk |-> WalWrite(w.disk, w.tree.wal_file, w.tree.wal_offset,
                                 Entry(key, value))]
    IN IF memtable_full(t2) THEN RunFlush(w2) ELSE w2

\* In a run that reopens the tree after each operation, the tree has just
\* been opened.
JustOpened ==
    clock = 0 \/ (hist.crash.kind = "crash" /\ hist.crash.recovery = "ok")

SetCall(key, data) ==
    /\ tree.open /\ running = "none" /\ MayCall
    /\ client.pc = "idle"
    /\ clock < conf.max_sets
    /\ conf.reopen => JustOpened
    /\ ~memtable_full(tree)
    /\ LET value == EntryValue(data, clock + 1)
           t2 == SetInsert(tree, key, value)
       IN /\ tree' = t2
          /\ spawned' = IF memtable_full(t2) THEN spawned + 1 ELSE spawned
          /\ client' = [pc |-> "set_wal", file |-> tree.wal_file,
                        offset |-> tree.wal_offset, entry |-> Entry(key, value)]
          /\ hist' = [hist EXCEPT !.crash = NoCrash,
                                  !.twin = IF conf.reopen
                                           THEN RunSet(@, key, value) ELSE @,
                                  !.last[key] = Unknown,
                                  !.set_during_flush =
                                      @ \/ caller.pc # "idle",
                                  !.set_during_compact =
                                      @ \/ compactor.pc # "idle"]
    /\ clock' = clock + 1
    /\ UNCHANGED <<disk, caller, flusher, compactor, running, conf, writer, dbclient, wal>>

SetReturn ==
    /\ tree.open /\ running = "none"
    /\ client.pc = "set_wal"
    /\ disk' = WalWrite(disk, client.file, client.offset, client.entry)
    /\ client' = Idle
    /\ hist' = [hist EXCEPT !.last[client.entry.key] = client.entry.value.data]
    /\ UNCHANGED <<tree, caller, spawned, flusher, compactor, running, clock, conf, writer, dbclient, wal>>

\* A task calls set and enters the wait loop of its first lines, where it
\* yields for as long as the active memtable is full.
SetWait(key, data) ==
    /\ tree.open /\ running = "none" /\ MayCall
    /\ client.pc = "idle"
    /\ clock < conf.max_sets
    /\ client' = [pc |-> "set_wait", key |-> key, data |-> data]
    /\ UNCHANGED <<tree, disk, caller, spawned, flusher, compactor, running, clock, hist, conf, writer, dbclient, wal>>

\* The waiting set finds the memtable not full and goes on, up to the await
\* of its WAL write.
SetProceed ==
    /\ tree.open /\ running = "none"
    /\ client.pc = "set_wait"
    /\ ~memtable_full(tree)
    /\ LET value == EntryValue(client.data, clock + 1)
           t2 == SetInsert(tree, client.key, value)
       IN /\ tree' = t2
          /\ spawned' = IF memtable_full(t2) THEN spawned + 1 ELSE spawned
          /\ client' = [pc |-> "set_wal", file |-> tree.wal_file,
                        offset |-> tree.wal_offset,
                        entry |-> Entry(client.key, value)]
          /\ hist' = [hist EXCEPT !.crash = NoCrash,
                                  !.last[client.key] = Unknown]
    /\ clock' = clock + 1
    /\ UNCHANGED <<disk, caller, flusher, compactor, running, conf, writer, dbclient, wal>>

\* ------------------------------------------------------ concurrent sets
\* MaxTasks tasks call set at the same time; client.task[i] is the position
\* of task i.
SetTasks == [pc |-> "tasks", task |-> [i \in 1..MaxTasks |-> Idle]]

Waiting == {i \in 1..MaxTasks : client.task[i].pc = "set_wait"}

\* Task i calls set and enters the wait loop.
TaskCall(i, key, data) ==
    /\ tree.open /\ running = "none"
    /\ client.pc = "tasks" /\ client.task[i].pc = "idle"
    /\ clock + Cardinality(Waiting) < conf.max_sets
    /\ client' = [client EXCEPT !.task[i] =
                     [pc |-> "set_wait", key |-> key, data |-> data]]
    /\ UNCHANGED <<tree, disk, caller, spawned, flusher, compactor, running, clock, hist, conf, writer, dbclient, wal>>

\* Task i finds the memtable not full and runs to the await of its WAL
\* write: the insert, which fails when it would add a key to a memtable
\* holding capacity entries, the spawn of a flush when the memtable is full
\* after it, the reservation of the WAL offset.
TaskInsert(i) ==
    /\ tree.open /\ running = "none"
    /\ client.pc = "tasks" /\ client.task[i].pc = "set_wait"
    /\ ~memtable_full(tree)
    /\ LET task == client.task[i]
           value == EntryValue(task.data, clock + 1)
           t2 == SetInsert(tree, task.key, value)
       IN IF /\ task.key \notin DOMAIN tree.active_memtable
             /\ Cardinality(DOMAIN tree.active_memtable) >= tree.capacity
          THEN /\ client' = [client EXCEPT !.task[i] = [pc |-> "error"]]
               /\ UNCHANGED <<tree, spawned>>
          ELSE /\ tree' = t2
               /\ spawned' = IF memtable_full(t2) THEN spawned + 1 ELSE spawned
               /\ client' = [client EXCEPT !.task[i] =
                                [pc |-> "set_wal", file |-> tree.wal_file,
                                 offset |-> tree.wal_offset,
                                 entry |-> Entry(task.key, value)]]
    /\ clock' = clock + 1
    /\ UNCHANGED <<disk, caller, flusher, compactor, running, hist, conf, writer, dbclient, wal>>

\* The WAL write of task i completes and its set returns.
TaskReturn(i) ==
    /\ tree.open /\ running = "none"
    /\ client.pc = "tasks" /\ client.task[i].pc = "set_wal"
    /\ LET task == client.task[i]
       IN disk' = WalWrite(disk, task.file, task.offset, task.entry)
    /\ client' = [client EXCEPT !.task[i] = Idle]
    /\ UNCHANGED <<tree, caller, spawned, flusher, compactor, running, clock, hist, conf, writer, dbclient, wal>>

\* --------------------------------------------------------------------- get
\* get_entry up to its first suspension: the two memtables, then the clone
\* of the SSTable list.
GetCall(key) ==
    /\ tree.open /\ running = "none"
    /\ client.pc = "idle"
    /\ LET t == tree
       IN IF key \in DOMAIN t.active_memtable
          THEN client' = [pc |-> "got", key |-> key,
                          result |-> Some(t.active_memtable[key])]
          ELSE IF t.flush_memtable.kind = "some"
                  /\ key \in DOMAIN t.flush_memtable.v
          THEN client' = [pc |-> "got", key |-> key,
                          result |-> Some(t.flush_memtable.v[key])]
          ELSE client' = [pc |-> "get_probe", key |-> key,
                          list |-> t.sstables, rc |-> t.rc,
                          pos |-> Len(t.sstables)]
    /\ UNCHANGED <<tree, disk, caller, spawned, flusher, compactor, running, clock, hist, conf, writer, dbclient, wal>>

\* One iteration of the loop over the cloned list: open both files of the
\* SSTable and binary-search it.
GetProbe ==
    /\ tree.open /\ running = "none"
    /\ client.pc = "get_probe"
    /\ LET one == IF client.pos = 0 THEN None
                  ELSE ProbeFrom(disk, SubSeq(client.list, client.pos, client.pos),
                                 1, client.key)
       IN IF client.pos = 0 \/ one.kind # "none"
          THEN client' = [pc |-> "got", key |-> client.key, result |-> one]
          ELSE client' = [client EXCEPT !.pos = @ - 1]
    /\ UNCHANGED <<tree, disk, caller, spawned, flusher, compactor, running, clock, hist, conf, writer, dbclient, wal>>

GetReturn ==
    /\ tree.open /\ running = "none"
    /\ client.pc = "got"
    /\ client' = Idle
    /\ UNCHANGED <<tree, disk, caller, spawned, flusher, compactor, running, clock, hist, conf, writer, dbclient, wal>>

\* ------------------------------------------------------------------- flush
\* A task calls flush().
FlushCall ==
    /\ tree.open /\ running = "none" /\ MayCall
    /\ caller.pc = "idle"
    /\ caller' = [pc |-> "flush_wait"]
    /\ hist' = [hist EXCEPT
                   !.crash = NoCrash,
                   !.set_during_flush = client.pc = "set_wal",
                   !.pre_flush =
                       [memtable |-> tree.active_memtable,
                        indices |-> sstable_indices(tree),
                        write_sstable_index |-> tree.write_sstable_index,
                        memtable_index |-> tree.memtable_index,
                        flushing |-> tree.flush_memtable.kind = "some"
                                     \/ spawned > 0]]
    /\ UNCHANGED <<tree, disk, client, spawned, flusher, compactor, running, clock, conf, writer, dbclient, wal>>

\* A flush that waits for nothing.
NoWait(t) == TRUE

\* The condition on which the wait loop of flush ends.
FlushSlotEmpty(t) == t.flush_memtable.kind = "none"

\* A flush that takes no memtable for empty.
NeverEmpty(memtable) == FALSE

\* self.active_memtable.borrow().len() == 0
IsEmpty(memtable) == DOMAIN memtable = {}

\* A flush leaves its wait loop (the flushing slot is empty): that of the
\* caller, or that of a detached task spawned by set.
FlushEnter(owner) ==
    /\ tree.open /\ running = "none"
    /\ \/ owner = "caller" /\ caller.pc = "flush_wait"
       \/ owner = "spawned" /\ spawned > 0
    /\ FlushSlotEmpty(tree)
    /\ spawned' = IF owner = "spawned" THEN spawned - 1 ELSE spawned
    /\ IF IsEmpty(tree.active_memtable)
       THEN /\ caller' = IF owner = "caller" THEN [pc |-> "flushed"] ELSE caller
            /\ UNCHANGED <<tree, flusher>>
       ELSE /\ tree' = FlushSwap(tree)
            /\ flusher' = [pc |-> "create_wal", owner |-> owner,
                           flush_wal |-> tree.memtable_index, written |-> 0]
            /\ caller' = IF owner = "caller" THEN [pc |-> "flushing"] ELSE caller
    /\ UNCHANGED <<disk, client, compactor, running, clock, hist, conf, writer, dbclient, wal>>

FlushCreateWal ==
    /\ tree.open /\ running = "none"
    /\ flusher.pc = "create_wal"
    /\ disk' = FlushCreateWalDisk(tree, disk)
    /\ tree' = FlushCreateWalTree(tree)
    /\ flusher' = [flusher EXCEPT !.pc = "create_files"]
    /\ UNCHANGED <<client, caller, spawned, compactor, running, clock, hist, conf, writer, dbclient, wal>>

FlushCreateFiles ==
    /\ tree.open /\ running = "none"
    /\ flusher.pc = "create_files"
    /\ disk' = FlushCreateFilesDisk(tree, disk)
    /\ flusher' = [flusher EXCEPT !.pc = "write"]
    /\ UNCHANGED <<tree, client, caller, spawned, compactor, running, clock, hist, conf, writer, dbclient, wal>>

FlushWrite ==
    /\ tree.open /\ running = "none"
    /\ flusher.pc = "write"
    /\ LET vec == MemtableEntries(tree.flush_memtable.v)
       IN IF flusher.written < Len(vec)
          THEN /\ disk' = WriteEntryDisk(disk, tree.write_sstable_index,
                                         vec[flusher.written + 1])
               /\ flusher' = [flusher EXCEPT !.written = @ + 1]
          ELSE /\ flusher' = [flusher EXCEPT !.pc = "finish"]
               /\ UNCHANGED disk
    /\ UNCHANGED <<tree, client, caller, spawned, compactor, running, clock, hist, conf, writer, dbclient, wal>>

FlushFinish ==
    /\ tree.open /\ running = "none"
    /\ flusher.pc = "finish"
    /\ tree' = FlushFinishTree(tree, flusher.written)
    /\ disk' = FlushFinishDisk(disk, flusher.flush_wal)
    /\ flusher' = NoFlush
    /\ caller' = IF flusher.owner = "caller" THEN [pc |-> "flushed"] ELSE caller
    /\ UNCHANGED <<client, spawned, compactor, running, clock, hist, conf, writer, dbclient, wal>>

\* An I/O step of flush returns an error (DmaFile::create of the next WAL or
\* of the SSTable files, a write of flush_memtable_to_disk) and the ? returns
\* it from flush: nothing is undone.
FlushFail ==
    /\ tree.open /\ running = "none"
    /\ flusher.pc \in {"create_wal", "create_files", "write"}
    /\ flusher' = [pc |-> "failed", step |-> flusher.pc,
                   owner |-> flusher.owner,
                   memtable |-> tree.flush_memtable.v]
    /\ caller' = IF flusher.owner = "caller" THEN [pc |-> "flushed"] ELSE caller
    /\ UNCHANGED <<tree, disk, client, spawned, compactor, running, clock, hist, conf, writer, dbclient, wal>>

\* std::fs::remove_file(&flush_wal_path) returns an error: the slot has been
\* cleared and the list published, the old WAL stays.
FlushFailRemove ==
    /\ tree.open /\ running = "none"
    /\ flusher.pc = "finish"
    /\ tree' = FlushFinishTree(tree, flusher.written)
    /\ flusher' = [pc |-> "failed", step |-> "remove",
                   owner |-> flusher.owner,
                   memtable |-> tree.flush_memtable.v]
    /\ caller' = IF flusher.owner = "caller" THEN [pc |-> "flushed"] ELSE caller
    /\ UNCHANGED <<disk, client, spawned, compactor, running, clock, hist, conf, writer, dbclient, wal>>

FlushReturn ==
    /\ tree.open /\ running = "none"
    /\ caller.pc = "flushed"
    /\ caller' = Idle
    /\ hist' = [hist EXCEPT !.pre_flush = None, !.set_during_flush = FALSE]
    /\ UNCHANGED <<tree, disk, client, spawned, flusher, compactor, running, clock, conf, writer, dbclient, wal>>

\* ----------------------------------------------------------------- compact
\* CompactionItem::cmp reversed (BinaryHeap is a max-heap): a pops before b
\* when its key is smaller, then its timestamp, then its position in the
\* input list.
PopsBefore(a, b) ==
    \/ a.entry.key < b.entry.key
    \/ /\ a.entry.key = b.entry.key
       /\ \/ a.entry.value.timestamp < b.entry.value.timestamp
          \/ /\ a.entry.value.timestamp = b.entry.value.timestamp
             /\ a.index < b.index

HeapTop(heap) == CHOOSE a \in heap : \A b \in heap \ {a} : PopsBefore(a, b)

\* read_next_entry on source number i, whose readers have consumed cur[i]
\* entries: any failure (end of file included) ends the source.
HasNext(src, cur, i) ==
    cur[i] < Len(src[i].data) /\ cur[i] < src[i].index

CompactionItem(src, cur, i) == [entry |-> src[i].data[cur[i] + 1], index |-> i]

\* The merge loop of compact: pop, compare with the new top, write or drop,
\* refill from the source just popped.
RECURSIVE MergeLoop(_, _, _, _, _)
MergeLoop(src, heap, cur, out, remove_tombstones) ==
    IF heap = {} THEN out
    ELSE LET current == HeapTop(heap)
             rest == heap \ {current}
             index == current.index
             should_write_current ==
                 /\ rest # {} => HeapTop(rest).entry.key # current.entry.key
                 /\ ~remove_tombstones \/ current.entry.value.data # TOMBSTONE
             out2 == IF should_write_current THEN Append(out, current.entry)
                     ELSE out
             cur2 == [cur EXCEPT ![index] = @ + 1]
             heap2 == IF HasNext(src, cur2, index)
                      THEN rest \cup {CompactionItem(src, cur2, index)}
                      ELSE rest
         IN MergeLoop(src, heap2, cur2, out2, remove_tombstones)

\* The entries compact writes to its output for the given input list.
CompactMerge(d, indices_to_compact, remove_tombstones) ==
    LET src == [i \in 1..Len(indices_to_compact) |->
                   SSTableFiles(d, indices_to_compact[i])]
        cur == [i \in 1..Len(indices_to_compact) |-> 0]
        heap == {CompactionItem(src, cur, i) :
                    i \in {j \in 1..Len(indices_to_compact) : HasNext(src, cur, j)}}
    IN MergeLoop(src, heap, cur, << >>, remove_tombstones)

\* The inputs dropped and the output pushed, the list left as it is.
PushOutput(old, indices_to_compact, output_index, items_written) ==
    Append(SelectSeq(old, LAMBDA x : x.index \notin Range(indices_to_compact)),
           SSTable(output_index, items_written))

\* The list compact publishes: the inputs dropped, the output added, sorted.
RECURSIVE SortByIndex(_)
SortByIndex(S) ==
    IF S = {} THEN << >>
    ELSE LET lo == CHOOSE x \in S : \A y \in S : x.index <= y.index
         IN <<lo>> \o SortByIndex(S \ {lo})

CompactPublishList(old, indices_to_compact, output_index, items_written) ==
    LET kept == SelectSeq(old, LAMBDA x : x.index \notin Range(indices_to_compact))
    IN SortByIndex(Range(Append(kept, SSTable(output_index, items_written))))

\* files_to_delete: the data and the index path of every input, in order.
FilesToDelete(indices_to_compact) ==
    [j \in 1..(2 * Len(indices_to_compact)) |->
        [ext |-> IF j % 2 = 1 THEN "data" ELSE "index",
         index |-> indices_to_compact[(j + 1) \div 2]]]

CompactionAction(indices_to_compact, output_index) ==
    [renames |-> output_index, deletes |-> FilesToDelete(indices_to_compact)]

\* Every SSTable file removed.
DeleteAll(d, f) == [d EXCEPT !.data = NoFiles, !.index = NoFiles]

\* remove_file_log_on_err behind path.exists()
DeleteFile(d, f) ==
    IF f.ext = "data" THEN [d EXCEPT !.data = WithoutFile(@, f.index)]
    ELSE [d EXCEPT !.index = WithoutFile(@, f.index)]

\* std::fs::rename of the compaction output to its final name.
RenameData(d, i) ==
    [d EXCEPT !.data = WithFile(@, i, d.compact_data[i]),
              !.compact_data = WithoutFile(@, i)]

RenameIndex(d, i) ==
    [d EXCEPT !.index = WithFile(@, i, d.compact_index[i]),
              !.compact_index = WithoutFile(@, i)]

NoCompaction == [pc |-> "idle"]

\* The input lists tried: the non-empty sublists of the current list.
RECURSIVE SeqOfSet(_)
SeqOfSet(S) ==
    IF S = {} THEN << >>
    ELSE LET lo == CHOOSE x \in S : \A y \in S : x <= y
         IN <<lo>> \o SeqOfSet(S \ {lo})

InputLists(t) == {SeqOfSet(S) : S \in (SUBSET Range(sstable_indices(t))) \ {{}}}

\* The same sublists with their indices listed in any order.
InputOrders(t) ==
    UNION {{q \in [1..Cardinality(S) -> S] : Range(q) = S} :
              S \in (SUBSET Range(sstable_indices(t))) \ {{}}}

\* compact up to the close of its output: the sources are opened, the
\* .compact_data / .compact_index files created, the merge written.
CompactCall(indices_to_compact, output_index, remove_tombstones) ==
    /\ tree.open /\ running = "none" /\ MayCall
    /\ compactor.pc = "idle"
    /\ hist.compactions < MaxCompactions
    /\ \A i \in Range(indices_to_compact) :
           i \in DOMAIN disk.data /\ i \in DOMAIN disk.index
    /\ output_index \notin DOMAIN disk.data
    /\ output_index \notin DOMAIN disk.index
    /\ LET out == CompactMerge(disk, indices_to_compact, remove_tombstones)
       IN /\ disk' = [disk EXCEPT
                         !.compact_data = WithFile(@, output_index, out),
                         !.compact_index = WithFile(@, output_index, Len(out))]
          /\ compactor' = [pc |-> "create_action",
                           indices_to_compact |-> indices_to_compact,
                           output_index |-> output_index,
                           remove_tombstones |-> remove_tombstones,
                           items_written |-> Len(out),
                           old_sstables |-> 0, deleted |-> 0,
                           replaced |-> << >>,
                           at_call |-> sstable_indices(tree)]
    /\ hist' = [hist EXCEPT !.crash = NoCrash,
                            !.compactions = @ + 1,
                            !.set_during_compact = client.pc = "set_wal",
                            !.pre_compact = [k \in Keys |-> get(tree, disk, k)]]
    /\ UNCHANGED <<tree, client, caller, spawned, flusher, running, clock, conf, writer, dbclient, wal>>

\* DmaFile::create(&compact_action_path): the intent file exists, empty.
CompactCreateAction ==
    /\ tree.open /\ running = "none"
    /\ compactor.pc = "create_action"
    /\ disk' = [disk EXCEPT !.compact_action =
                    WithFile(@, compactor.output_index, None)]
    /\ compactor' = [compactor EXCEPT !.pc = "write_action"]
    /\ UNCHANGED <<tree, client, caller, spawned, flusher, running, clock, hist, conf, writer, dbclient, wal>>

\* The intent is written and the writer closed.
CompactWriteAction ==
    /\ tree.open /\ running = "none"
    /\ compactor.pc = "write_action"
    /\ disk' = [disk EXCEPT !.compact_action =
                    WithFile(@, compactor.output_index,
                        Some(CompactionAction(compactor.indices_to_compact,
                                              compactor.output_index)))]
    /\ compactor' = [compactor EXCEPT !.pc = "publish"]
    /\ UNCHANGED <<tree, client, caller, spawned, flusher, running, clock, hist, conf, writer, dbclient, wal>>

\* old_sstables is cloned, the new list published and the data file renamed;
\* no suspension until the wait loop, which yields only while a reader holds
\* the list it replaced.
CompactPublish ==
    /\ tree.open /\ running = "none"
    /\ compactor.pc = "publish"
    /\ tree' = [tree EXCEPT
                   !.sstables = CompactPublishList(@,
                       compactor.indices_to_compact, compactor.output_index,
                       compactor.items_written),
                   !.rc = @ + 1]
    /\ disk' = RenameData(disk, compactor.output_index)
    /\ compactor' = [compactor EXCEPT !.pc = "rename_index",
                                      !.old_sstables = tree.rc,
                                      !.replaced = tree.sstables]
    /\ running' = "compactor"
    /\ UNCHANGED <<client, caller, spawned, flusher, clock, hist, conf, writer, dbclient, wal>>

\* Rc::strong_count(&old_sstables): the compactor's clone, plus one for every
\* reader that cloned the same list.
StrongCount(old_sstables) ==
    1 + (IF client.pc = "get_probe" /\ client.rc = old_sstables THEN 1 ELSE 0)

CompactRenameIndex ==
    /\ tree.open /\ running = "compactor"
    /\ compactor.pc = "rename_index"
    /\ disk' = RenameIndex(disk, compactor.output_index)
    /\ compactor' = [compactor EXCEPT !.pc = "wait"]
    /\ running' = IF StrongCount(compactor.old_sstables) > 1
                  THEN "none" ELSE "compactor"
    /\ UNCHANGED <<tree, client, caller, spawned, flusher, clock, hist, conf, writer, dbclient, wal>>

\* The wait loop is left and the source files are deleted one by one, then
\* the intent file; no suspension in between.
CompactDelete ==
    /\ tree.open
    /\ \/ running \in {"none", "compactor"} /\ compactor.pc = "wait"
          /\ ~(StrongCount(compactor.old_sstables) > 1)
       \/ running = "compactor" /\ compactor.pc = "delete"
    /\ LET files == FilesToDelete(compactor.indices_to_compact)
       IN IF compactor.deleted < Len(files)
          THEN /\ disk' = DeleteFile(disk, files[compactor.deleted + 1])
               /\ compactor' = [compactor EXCEPT !.pc = "delete",
                                                 !.deleted = @ + 1]
               /\ running' = "compactor"
          ELSE /\ disk' = [disk EXCEPT !.compact_action =
                               WithoutFile(@, compactor.output_index)]
               /\ compactor' = [compactor EXCEPT !.pc = "done"]
               /\ running' = "none"
    /\ UNCHANGED <<tree, client, caller, spawned, flusher, clock, hist, conf, writer, dbclient, wal>>

\* compact returns the error of one of its steps; nothing is undone.
Failed(step) ==
    [pc |-> "failed", step |-> step,
     indices_to_compact |-> compactor.indices_to_compact,
     output_index |-> compactor.output_index]

\* DmaFile::open of a source, DmaFile::create of an output or a write of the
\* merge fails: the first written entries of the output, if any, are left
\* under the .compact names.
CompactFailMerge(indices_to_compact, output_index, remove_tombstones, written) ==
    /\ tree.open /\ running = "none" /\ MayCall
    /\ compactor.pc = "idle"
    /\ hist.compactions < MaxCompactions
    /\ \A i \in Range(indices_to_compact) :
           i \in DOMAIN disk.data /\ i \in DOMAIN disk.index
    /\ output_index \notin DOMAIN disk.data
    /\ output_index \notin DOMAIN disk.index
    /\ LET out == CompactMerge(disk, indices_to_compact, remove_tombstones)
       IN /\ written <= Len(out)
          /\ disk' = IF written = 0 THEN disk
                     ELSE [disk EXCEPT
                              !.compact_data = WithFile(@, output_index,
                                                   SubSeq(out, 1, written - 1)),
                              !.compact_index = WithFile(@, output_index,
                                                    written - 1)]
    /\ compactor' = [pc |-> "failed", step |-> "merge",
                     indices_to_compact |-> indices_to_compact,
                     output_index |-> output_index]
    /\ hist' = [hist EXCEPT !.crash = NoCrash,
                            !.compactions = @ + 1,
                            !.set_during_compact = client.pc = "set_wal",
                            !.pre_compact = [k \in Keys |-> get(tree, disk, k)]]
    /\ UNCHANGED <<tree, client, caller, spawned, flusher, running, clock, conf, writer, dbclient, wal>>

\* DmaFile::create of the intent file, or its write, fails.
CompactFailAction ==
    /\ tree.open /\ running = "none"
    /\ compactor.pc \in {"create_action", "write_action"}
    /\ compactor' = Failed("action")
    /\ UNCHANGED <<tree, disk, client, caller, spawned, flusher, running, clock, hist, conf, writer, dbclient, wal>>

\* std::fs::rename of the data file fails: the new list has been published.
CompactFailRenameData ==
    /\ tree.open /\ running = "none"
    /\ compactor.pc = "publish"
    /\ tree' = [tree EXCEPT
                   !.sstables = CompactPublishList(@,
                       compactor.indices_to_compact, compactor.output_index,
                       compactor.items_written),
                   !.rc = @ + 1]
    /\ compactor' = Failed("rename_data")
    /\ UNCHANGED <<disk, client, caller, spawned, flusher, running, clock, hist, conf, writer, dbclient, wal>>

\* std::fs::rename of the index file fails, the data file renamed.
CompactFailRenameIndex ==
    /\ tree.open /\ running = "compactor"
    /\ compactor.pc = "rename_index"
    /\ compactor' = Failed("rename_index")
    /\ running' = "none"
    /\ UNCHANGED <<tree, disk, client, caller, spawned, flusher, clock, hist, conf, writer, dbclient, wal>>

CompactReturn ==
    /\ tree.open /\ running = "none"
    /\ compactor.pc = "done"
    /\ compactor' = NoCompaction
    /\ hist' = [hist EXCEPT !.pre_compact = None, !.set_during_compact = FALSE]
    /\ UNCHANGED <<tree, disk, client, caller, spawned, flusher, running, clock, conf, writer, dbclient, wal>>

\* ---------------------------------------------------------------- recovery
Fail == [ok |-> FALSE]

\* RedBlackTree::set on a memtable of capacity TREE_CAPACITY: a new key in a
\* full memtable is an error.
RECURSIVE ReadWal(_, _, _, _)
ReadWal(wal_buf, pos, memtable, capacity) ==
    IF pos > Len(wal_buf) THEN [ok |-> TRUE, memtable |-> memtable]
    ELSE LET entry == wal_buf[pos]
         IN IF entry.key \notin DOMAIN memtable
               /\ Cardinality(DOMAIN memtable) = capacity
            THEN Fail
            ELSE ReadWal(wal_buf, pos + 1,
                         MemtableSet(memtable, entry.key, entry.value), capacity)

\* read_memtable_from_wal_file: one record per page, later records replace
\* earlier ones.
read_memtable_from_wal_file(wal_buf, capacity) ==
    ReadWal(wal_buf, 1, EmptyMemtable, capacity)

\* run_compaction_action: every delete whose file exists, then every rename
\* whose source exists.
\* No file removed.
KeepFiles(d, deletes, j) == d

RECURSIVE RunDeletes(_, _, _)
RunDeletes(d, deletes, j) ==
    IF j > Len(deletes) THEN d
    ELSE RunDeletes(DeleteFile(d, deletes[j]), deletes, j + 1)

run_compaction_action(d, action) ==
    LET d1 == RunDeletes(d, action.deletes, 1)
        d2 == IF action.renames \in DOMAIN d1.compact_data
              THEN RenameData(d1, action.renames) ELSE d1
    IN IF action.renames \in DOMAIN d2.compact_index
       THEN RenameIndex(d2, action.renames) ELSE d2

\* The replay of the intent files found in the directory: an intent that
\* does not deserialize runs nothing; the file is removed either way.
RECURSIVE ReplayActions(_)
ReplayActions(d) ==
    IF DOMAIN d.compact_action = {} THEN d
    ELSE LET i == CHOOSE x \in DOMAIN d.compact_action :
                      \A y \in DOMAIN d.compact_action : x <= y
             content == d.compact_action[i]
             d1 == IF content.kind = "some"
                   THEN run_compaction_action(d, content.v) ELSE d
         IN ReplayActions([d1 EXCEPT !.compact_action = WithoutFile(@, i)])

\* The index two above the greatest, or 0 without SSTables.
TwoAboveMax(indices) ==
    IF indices = {} THEN 0
    ELSE (CHOOSE x \in indices : \A y \in indices : x >= y) + 2

\* write_file_index: max + 2 - (max & 1), or 0 without SSTables.
WriteFileIndex(indices) ==
    IF indices = {} THEN 0
    ELSE LET i == CHOOSE x \in indices : \A y \in indices : x >= y
         IN i + 2 - (i % 2)

\* flush_memtable_to_disk on files opened without truncation.
OverwriteEntries(old, new) ==
    IF Len(new) >= Len(old) THEN new
    ELSE new \o SubSeq(old, Len(new) + 1, Len(old))

\* The two-WAL case of open_or_create: the WAL with the smaller index is read
\* and written to the SSTable files of the same index, which must exist.
ReflushUnflashed(d, unflashed_file_index, capacity) ==
    LET memtable == read_memtable_from_wal_file(d.memtable[unflashed_file_index],
                                                capacity)
    IN IF ~memtable.ok THEN Fail
       ELSE IF unflashed_file_index \notin DOMAIN d.data
               \/ unflashed_file_index \notin DOMAIN d.index THEN Fail
       ELSE LET vec == MemtableEntries(memtable.memtable)
            IN [ok |-> TRUE,
                disk |-> [d EXCEPT
                    !.data = WithFile(@, unflashed_file_index,
                        OverwriteEntries(d.data[unflashed_file_index], vec)),
                    !.index = WithFile(@, unflashed_file_index,
                        Max(d.index[unflashed_file_index], Len(vec))),
                    !.memtable = WithoutFile(@, unflashed_file_index)]]

\* LSMTree::open_or_create on the directory d: the tree it returns and the
\* directory it leaves, or a failure.
open_or_create(d0, capacity) ==
    LET d1 == ReplayActions(d0)
        indices == DOMAIN d1.data
        wal_indices == DOMAIN d1.memtable
        lo == CHOOSE x \in wal_indices : \A y \in wal_indices : x <= y
        hi == CHOOSE x \in wal_indices : \A y \in wal_indices : x >= y
    IN IF \E i \in indices : i \notin DOMAIN d1.index THEN Fail
       ELSE IF Cardinality(wal_indices) > 2 THEN Fail
       ELSE
       LET sstables == [j \in 1..Cardinality(indices) |->
                           SSTable(SeqOfSet(indices)[j],
                                   d1.index[SeqOfSet(indices)[j]])]
           reflush == IF Cardinality(wal_indices) = 2
                      THEN ReflushUnflashed(d1, lo, capacity)
                      ELSE [ok |-> TRUE, disk |-> d1]
       IN IF ~reflush.ok THEN Fail
          ELSE
          LET d2 == reflush.disk
              wal_file_index == IF wal_indices = {} THEN 0 ELSE hi
              d3 == IF wal_file_index \in DOMAIN d2.memtable THEN d2
                    ELSE [d2 EXCEPT !.memtable = WithFile(@, wal_file_index, << >>)]
              active == read_memtable_from_wal_file(d3.memtable[wal_file_index],
                                                    capacity)
          IN IF ~active.ok THEN Fail
             ELSE [ok |-> TRUE,
                   disk |-> d3,
                   tree |-> [open |-> TRUE,
                             capacity |-> capacity,
                             active_memtable |-> active.memtable,
                             flush_memtable |-> None,
                             write_sstable_index |-> WriteFileIndex(indices),
                             sstables |-> sstables,
                             rc |-> 0,
                             memtable_index |-> wal_file_index,
                             wal_file |-> wal_file_index,
                             wal_offset |-> Len(d3.memtable[wal_file_index])]]

\* --------------------------------------------------------- crash and reopen
ClosedTree ==
    [open |-> FALSE, capacity |-> 0, active_memtable |-> EmptyMemtable,
     flush_memtable |-> None, write_sstable_index |-> 0, sstables |-> << >>,
     rc |-> 0, memtable_index |-> 0, wal_file |-> 0, wal_offset |-> 0]

\* Where a compaction in flight would have left the tree and the directory
\* had it run to its end.
CompactComplete(t, d, c) ==
    [tree |-> [t EXCEPT !.sstables = CompactPublishList(@, c.indices_to_compact,
                                         c.output_index, c.items_written)],
     disk |-> [run_compaction_action(d,
                   CompactionAction(c.indices_to_compact, c.output_index))
               EXCEPT !.compact_action = WithoutFile(@, c.output_index)]]

\* The process stops: the tree and every task are gone, the files stay.
Crash ==
    /\ tree.open
    /\ IF conf.reopen
       THEN client.pc = "idle" /\ clock > 0 /\ hist.crash = NoCrash
       ELSE hist.crashes < MaxCrashes
    /\ tree' = ClosedTree
    /\ client' = Idle
    /\ caller' = Idle
    /\ spawned' = 0
    /\ flusher' = NoFlush
    /\ compactor' = NoCompaction
    /\ running' = "none"
    /\ hist' = [hist EXCEPT
                   !.crashes = @ + 1,
                   !.pre_flush = None, !.pre_compact = None,
                   !.set_during_flush = FALSE, !.set_during_compact = FALSE,
                   !.crash = [kind |-> "crash",
                              recovery |-> "pending",
                              client |-> client.pc,
                              flusher |-> flusher.pc,
                              spawned |-> spawned,
                              compactor |-> compactor,
                              answers |-> [k \in Keys |-> get(tree, disk, k)],
                              tree |-> tree,
                              disk |-> disk]]
    /\ UNCHANGED <<disk, clock, conf, writer, dbclient, wal>>

\* LSMTree::open_or_create on the directory as the crash left it.
Reopen ==
    /\ ~tree.open
    /\ hist.crash.kind = "crash" /\ hist.crash.recovery = "pending"
    /\ LET r == open_or_create(disk, conf.capacity)
       IN IF r.ok
          THEN /\ tree' = r.tree
               /\ disk' = r.disk
               /\ hist' = [hist EXCEPT !.crash.recovery = "ok"]
          ELSE /\ hist' = [hist EXCEPT !.crash.recovery = "failed"]
               /\ UNCHANGED <<tree, disk>>
    /\ UNCHANGED <<client, caller, spawned, flusher, compactor, running, clock, conf, writer, dbclient, wal>>

\* ------------------------------------------------------------ specification
\* A fresh tree in an empty directory, under configuration c.
InitTreeFor(c, d, tasks) ==
    /\ conf = c
    /\ tree = open_or_create(d, c.capacity).tree
    /\ disk = open_or_create(d, c.capacity).disk
    /\ client = tasks
    /\ caller = Idle
    /\ spawned = 0
    /\ flusher = NoFlush
    /\ compactor = NoCompaction
    /\ running = "none"
    /\ clock = 0
    /\ hist = [last |-> [k \in Keys |-> Unknown],
               set_during_flush |-> FALSE,
               set_during_compact |-> FALSE,
               pre_flush |-> None,
               pre_compact |-> None,
               compactions |-> 0,
               crashes |-> 0,
               crash |-> NoCrash,
               twin |-> IF c.reopen
                        THEN [tree |-> open_or_create(d, c.capacity).tree,
                              disk |-> open_or_create(d, c.capacity).disk]
                        ELSE None]

InitTree(c, d) == InitTreeFor(c, d, Idle)

\* A tree opened on the directory d, and no EntryWriter of its own.
InitFrom(c, d) == InitTree(c, d) /\ writer = NoWriter /\ dbclient = NoClient /\ wal = NoWal

\* A tree opened on an empty directory.
InitWith(c) == InitFrom(c, EmptyDisk)

\* Every call in its own time, calls overlap freely.  The capacity and the
\* key range are kept small.
Init == InitWith([capacity |-> SmallCapacity, keys |-> 1..SmallMaxKey,
                  max_sets |-> SmallMaxSets, overlap |-> "all", reopen |-> FALSE])

\* Writes, flushes and compactions one at a time, reads overlapping them.
InitReads == InitWith([capacity |-> SmallCapacity, keys |-> 1..SmallMaxKey,
                       max_sets |-> SmallMaxSets, overlap |-> "reads", reopen |-> FALSE])

\* The same with the full key range and capacity.
InitSeq == InitWith([capacity |-> TREE_CAPACITY, keys |-> Keys,
                     max_sets |-> MaxSets, overlap |-> "reads", reopen |-> FALSE])

\* The tree is dropped and opened again after each set or delete; the same
\* calls are applied to a second tree that is never reopened.
InitReopen == InitWith([capacity |-> SmallCapacity, keys |-> 1..SmallMaxKey,
                        max_sets |-> SmallMaxSets, overlap |-> "all",
                        reopen |-> TRUE])

\* The memtables a flush may have written to an SSTable: at least one key,
\* any value, any timestamp (OffsetDateTime::now_utc is the wall clock).
FlushedMemtables ==
    UNION {[S -> {EntryValue(v, ts) : v \in Vals, ts \in 1..MaxTimestamp}] :
              S \in (SUBSET (1..SmallMaxKey)) \ {{}}}

\* A directory with the SSTables 0 and 2 that two flushes wrote from the
\* memtables m0 and m2.
TwoSSTables(m0, m2) ==
    [EmptyDisk EXCEPT
        !.data = WithFile(WithFile(NoFiles, 0, MemtableEntries(m0)),
                          2, MemtableEntries(m2)),
        !.index = WithFile(WithFile(NoFiles, 0, Cardinality(DOMAIN m0)),
                           2, Cardinality(DOMAIN m2))]

\* A tree opened on a directory of two SSTables; no two writes of a key
\* carry the same timestamp.
InitMerge ==
    \E m0, m2 \in FlushedMemtables :
        /\ \A k \in DOMAIN m0 \cap DOMAIN m2 : m0[k].timestamp # m2[k].timestamp
        /\ InitFrom([capacity |-> SmallCapacity, keys |-> 1..SmallMaxKey,
                     max_sets |-> SmallMaxSets, overlap |-> "reads",
                     reopen |-> FALSE], TwoSSTables(m0, m2))

SetNext ==
    \/ \E k \in conf.keys, v \in Vals : SetCall(k, v)
    \/ SetReturn

GetNext ==
    \/ \E k \in conf.keys : GetCall(k)
    \/ GetProbe
    \/ GetReturn

FlushNext ==
    \/ FlushCall
    \/ \E owner \in {"caller", "spawned"} : FlushEnter(owner)
    \/ FlushCreateWal
    \/ FlushCreateFiles
    \/ FlushWrite
    \/ FlushFinish
    \/ FlushReturn

CompactNext ==
    \/ \E t \in InputLists(tree), o \in 0..MaxIndex, r \in BOOLEAN :
           CompactCall(t, o, r)
    \/ CompactCreateAction
    \/ CompactWriteAction
    \/ CompactPublish
    \/ CompactRenameIndex
    \/ CompactDelete
    \/ CompactReturn

\* The steps of a flush that set spawned.
SpawnedFlushNext ==
    \/ FlushEnter("spawned")
    \/ FlushCreateWal
    \/ FlushCreateFiles
    \/ FlushWrite
    \/ FlushFinish

Next == SetNext \/ GetNext \/ FlushNext

Spec == Init /\ [][Next]_vars

NextSeq == SetNext \/ FlushNext

SpecSeq == InitSeq /\ [][NextSeq]_vars

NextCompact == SetNext \/ GetNext \/ FlushNext \/ CompactNext

SpecCompact == InitReads /\ [][NextCompact]_vars

NextCrash == SetNext \/ FlushNext \/ CompactNext \/ Crash \/ Reopen

SpecCrash == InitReads /\ [][NextCrash]_vars

\* compact called with its inputs listed in any order.
CompactAnyOrderNext ==
    \/ \E t \in InputOrders(tree), o \in 0..MaxIndex, r \in BOOLEAN :
           CompactCall(t, o, r)
    \/ CompactCreateAction
    \/ CompactWriteAction
    \/ CompactPublish
    \/ CompactRenameIndex
    \/ CompactDelete
    \/ CompactReturn

NextMerge == CompactAnyOrderNext

SpecMerge == InitMerge /\ [][NextMerge]_vars

\* An EntryWriter on in-memory streams, fed entries of any size.
InitWriter ==
    /\ InitTree([capacity |-> SmallCapacity, keys |-> 1..SmallMaxKey,
                 max_sets |-> SmallMaxSets, overlap |-> "reads",
                 reopen |-> FALSE], EmptyDisk)
    /\ writer = EntryWriterNew
    /\ dbclient = NoClient /\ wal = NoWal

NextWriter ==
    \/ \E size \in 1..MaxEntrySize : EntryWrite(size)
    \/ EntryClose

SpecWriter == InitWriter /\ [][NextWriter]_vars

\* A directory as a stopped process leaves it: SSTables under any set of
\* indices (flushes give the even ones, compactions any), and one WAL.
Directories ==
    {[EmptyDisk EXCEPT
         !.data = [i \in S |-> [j \in 1..n |-> Entry(j, EntryValue(1, 1))]],
         !.index = [i \in S |-> n],
         !.memtable = [i \in {w} |-> << >>]] :
     S \in SUBSET (0..MaxIndex), n \in 1..2, w \in {2 * x : x \in 0..MaxIndex}}

\* A closed tree over any such directory, about to be opened.
InitOpen ==
    \E d \in Directories :
        /\ conf = [capacity |-> SmallCapacity, keys |-> 1..SmallMaxKey,
                   max_sets |-> SmallMaxSets, overlap |-> "reads",
                   reopen |-> FALSE]
        /\ tree = ClosedTree
        /\ disk = d
        /\ client = Idle /\ caller = Idle /\ spawned = 0
        /\ flusher = NoFlush /\ compactor = NoCompaction
        /\ running = "none" /\ clock = 0
        /\ writer = NoWriter
        /\ dbclient = NoClient /\ wal = NoWal
        /\ hist = [last |-> [k \in Keys |-> Unknown],
                   set_during_flush |-> FALSE,
                   set_during_compact |-> FALSE,
                   pre_flush |-> None,
                   pre_compact |-> None,
                   compactions |-> 0,
                   crashes |-> 1,
                   crash |-> [kind |-> "crash", recovery |-> "pending",
                              client |-> "idle", flusher |-> "none",
                              spawned |-> 0, compactor |-> NoCompaction,
                              answers |-> [k \in Keys |-> None],
                              tree |-> ClosedTree, disk |-> d],
                   twin |-> None]

NextOpen == Reopen

SpecOpen == InitOpen /\ [][NextOpen]_vars

\* A client built from the metadata of any cluster of 1..MaxNodes nodes
\* (an address may be listed twice), any hash of the addresses and any
\* replication factor.
InitRing ==
    /\ InitTree([capacity |-> SmallCapacity, keys |-> 1..SmallMaxKey,
                 max_sets |-> SmallMaxSets, overlap |-> "reads",
                 reopen |-> FALSE], EmptyDisk)
    /\ writer = NoWriter /\ wal = NoWal
    /\ \E n \in 1..MaxNodes :
         \E nodes \in [1..n -> Addresses], hash \in [Addresses -> Hashes],
            replication_factor \in 0..MaxReplication :
             dbclient \in from_seed_nodes(nodes, hash, replication_factor)

NextRing ==
    \/ \E h \in Hashes : send_sharded_request(h)
    \/ \E ok \in BOOLEAN, e \in {"ConnectToShard", "CommunicateWithShard"} :
           send_buffer(ok, IF ok THEN "none" ELSE e)

SpecRing == InitRing /\ [][NextRing]_vars

\* Sets that wait on a full memtable, the flushes they spawn, a crash and a
\* reopen; the executor runs every task that can run, and the tree is
\* reopened after a crash.
NextWait ==
    \/ \E k \in conf.keys, v \in Vals : SetWait(k, v)
    \/ SetProceed
    \/ SetReturn
    \/ SpawnedFlushNext
    \/ Crash
    \/ Reopen

SpecWait ==
    /\ Init /\ [][NextWait]_vars
    /\ WF_vars(SetProceed) /\ WF_vars(SetReturn)
    /\ WF_vars(SpawnedFlushNext) /\ WF_vars(Reopen)

\* A directory with the one SSTable 0, written by a flush of a memtable
\* holding the keys S.
OneSSTable(S) ==
    [EmptyDisk EXCEPT
        !.data = WithFile(NoFiles, 0,
                     MemtableEntries([k \in S |-> EntryValue(1, 1)])),
        !.index = WithFile(NoFiles, 0, Cardinality(S))]

\* A tree opened on one SSTable holding any non-empty set of keys.
InitSearch ==
    \E S \in (SUBSET Keys) \ {{}} :
        InitFrom([capacity |-> TREE_CAPACITY, keys |-> Keys,
                  max_sets |-> 0, overlap |-> "reads", reopen |-> FALSE],
                 OneSSTable(S))

NextSearch == GetNext

SpecSearch == InitSearch /\ [][NextSearch]_vars

\* Sets appending to one WAL file, their writes completing in any order, a
\* stop of the process and the replay of the file.
InitWal ==
    /\ InitTree([capacity |-> SmallCapacity, keys |-> 1..SmallMaxKey,
                 max_sets |-> SmallMaxSets, overlap |-> "reads",
                 reopen |-> FALSE], EmptyDisk)
    /\ writer = NoWriter /\ dbclient = NoClient
    /\ wal = WalNew

NextWal ==
    \/ \E k \in 1..SmallMaxKey, v \in Vals, size \in 1..MaxEntrySize :
           WalSet(k, v, size)
    \/ \E n \in 1..MaxRecords : WalWriteAt(n)
    \/ \E torn \in 0..MaxEntrySize : WalCrash(torn)
    \/ WalRecover

SpecWal == InitWal /\ [][NextWal]_vars

\* A directory a stopped compaction left: SSTables under a set of indices,
\* each file with contents of its own, the output of the merge of some of
\* them under the .compact names of an index not in use, and the intent.
ActionDirectory(S, output_index, action) ==
    [EmptyDisk EXCEPT
        !.data = [i \in S |-> <<Entry(1, EntryValue(0, i + 1))>>],
        !.index = [i \in S |-> i + 1],
        !.compact_data = [i \in {output_index} |-> <<Entry(1, EntryValue(1, 0))>>],
        !.compact_action = [i \in {output_index} |-> Some(action)]]

\* std::fs::rename of both outputs needs both sources.
WithCompactIndex(d, output_index) ==
    [d EXCEPT !.compact_index = [i \in {output_index} |-> 1]]

InitAction ==
    \E S \in SUBSET (0..MaxInputs), output_index \in 0..(MaxInputs + 1) :
      \E inputs \in (SUBSET S) \ {{}} :
        \E q \in {f \in [1..Cardinality(inputs) -> inputs] : Range(f) = inputs} :
          /\ output_index \notin S
          /\ conf = [capacity |-> SmallCapacity, keys |-> 1..SmallMaxKey,
                     max_sets |-> SmallMaxSets, overlap |-> "reads",
                     reopen |-> FALSE]
          /\ tree = ClosedTree
          /\ disk = WithCompactIndex(
                        ActionDirectory(S, output_index,
                                        CompactionAction(q, output_index)),
                        output_index)
          /\ compactor = [pc |-> "stopped",
                          action |-> CompactionAction(q, output_index),
                          before |-> disk, renamed |-> 0, runs |-> 0]
          /\ client = Idle /\ caller = Idle /\ spawned = 0
          /\ flusher = NoFlush /\ running = "none" /\ clock = 0
          /\ writer = NoWriter /\ dbclient = NoClient /\ wal = NoWal
          /\ hist = None

\* One of the renames of compact, in their order, done before the stop.
ActionRename ==
    /\ compactor.pc = "stopped" /\ compactor.runs = 0
    /\ compactor.renamed < 2
    /\ disk' = IF compactor.renamed = 0
               THEN RenameData(disk, compactor.action.renames)
               ELSE RenameIndex(disk, compactor.action.renames)
    /\ compactor' = [compactor EXCEPT !.renamed = @ + 1]
    /\ UNCHANGED <<tree, client, caller, spawned, flusher, running, clock, hist, conf, writer, dbclient, wal>>

\* One of the deletes done before the stop.
ActionDelete(j) ==
    /\ compactor.pc = "stopped" /\ compactor.runs = 0
    /\ j \in 1..Len(compactor.action.deletes)
    /\ disk' = DeleteFile(disk, compactor.action.deletes[j])
    /\ UNCHANGED <<tree, client, caller, spawned, flusher, compactor, running, clock, hist, conf, writer, dbclient, wal>>

\* run_compaction_action on the directory as it is.
ActionReplay ==
    /\ compactor.pc = "stopped" /\ compactor.runs < 2
    /\ disk' = run_compaction_action(disk, compactor.action)
    /\ compactor' = [compactor EXCEPT !.runs = @ + 1]
    /\ UNCHANGED <<tree, client, caller, spawned, flusher, running, clock, hist, conf, writer, dbclient, wal>>

NextAction ==
    \/ ActionRename
    \/ \E j \in 1..(2 * (MaxInputs + 1)) : ActionDelete(j)
    \/ ActionReplay

SpecAction == InitAction /\ [][NextAction]_vars

\* A tree opened on the SSTables 0 and 2; sets, gets, flushes and one
\* compaction overlap freely.
InitPublish ==
    \E m0, m2 \in FlushedMemtables :
        /\ DOMAIN m0 = {1} /\ DOMAIN m2 = {1}
        /\ m0[1].timestamp < m2[1].timestamp
        /\ m0[1].data = 0 /\ m2[1].data = MaxVal
        /\ InitFrom([capacity |-> SmallCapacity, keys |-> 1..SmallMaxKey,
                     max_sets |-> MaxPublishSets, overlap |-> "all",
                     reopen |-> FALSE], TwoSSTables(m0, m2))

SpecPublish == InitPublish /\ [][NextCompact]_vars

\* Sets, gets and flushes overlapping freely, any I/O step of a flush
\* failing.
NextFail == Next \/ FlushFail \/ FlushFailRemove

SpecFail == Init /\ [][NextFail]_vars

\* Sets, flushes and compactions one at a time, reads overlapping them, any
\* step of a compaction failing.
CompactFailNext ==
    \/ \E t \in InputLists(tree), o \in 0..MaxIndex, r \in BOOLEAN,
          n \in 0..(MaxEntries + 1) : CompactFailMerge(t, o, r, n)
    \/ CompactFailAction
    \/ CompactFailRenameData
    \/ CompactFailRenameIndex

NextCompactFail == NextCompact \/ CompactFailNext

SpecCompactFail == InitReads /\ [][NextCompactFail]_vars

\* Concurrent set tasks, called flushes and the flushes the sets spawn.
InitTasks ==
    /\ InitTreeFor([capacity |-> SmallCapacity, keys |-> 1..SmallMaxKey,
                    max_sets |-> MaxTaskSets, overlap |-> "all",
                    reopen |-> FALSE], EmptyDisk, SetTasks)
    /\ writer = NoWriter /\ dbclient = NoClient /\ wal = NoWal

TaskNext ==
    \/ \E i \in 1..MaxTasks, k \in conf.keys : TaskCall(i, k, MaxVal)
    \/ \E i \in 1..MaxTasks : TaskInsert(i)
    \/ \E i \in 1..MaxTasks : TaskReturn(i)

NextTasks == TaskNext \/ FlushNext

SpecTasks == InitTasks /\ [][NextTasks]_vars

NextReopen == SetNext \/ SpawnedFlushNext \/ Crash \/ Reopen

SpecReopen == InitReopen /\ [][NextReopen]_vars

\* ------------------------------------------------------------------ claims

\* No call of the calling task is in flight: the last set or delete of every
\* key has returned.
Returned == tree.open /\ client.pc = "idle"

\* C1 (read-your-writes): once set(k, v) with a non-empty v has returned,
\* and no later set or delete of k was called, a get(k) of the same task
\* returns v, whatever flushes happened in between.
C1_ReadYourWrites ==
    Returned =>
        \A k \in conf.keys :
            hist.last[k] \notin {Unknown, TOMBSTONE}
                => get(tree, disk, k) = Some(hist.last[k])

\* C2 (tombstone masking): once delete(k) has returned, and no later set of
\* k was called, get(k) reports that the key is not found.
C2_TombstoneMasking ==
    Returned =>
        \A k \in conf.keys :
            hist.last[k] = TOMBSTONE => get(tree, disk, k) = None

\* The set call in flight, if any, is writing this entry of the active
\* memtable.
InFlight(k) ==
    /\ client.pc = "set_wal"
    /\ client.entry = Entry(k, tree.active_memtable[k])

\* The WAL file named by the tree's current WAL index holds a record equal to
\* the entry.
InCurrentWal(e) ==
    /\ tree.memtable_index \in DOMAIN disk.memtable
    /\ e \in Range(disk.memtable[tree.memtable_index])

\* C3 (WAL durability): every entry of the active memtable written by a set
\* that has returned has an equal record in the WAL file of the tree's
\* current WAL index, also for a set that ran while a flush was between its
\* memtable swap and the creation of the next WAL.
C3_WalDurability ==
    tree.open =>
        \A k \in DOMAIN tree.active_memtable :
            ~InFlight(k) => InCurrentWal(Entry(k, tree.active_memtable[k]))

\* flush() was called on a non-empty active memtable with no other flush
\* pending, no set or delete ran while it did, and it has returned.
FlushedAlone ==
    /\ tree.open /\ caller.pc = "flushed"
    /\ hist.pre_flush # None
    /\ DOMAIN hist.pre_flush.memtable # {}
    /\ ~hist.pre_flush.flushing
    /\ ~hist.set_during_flush

\* C9 (flush postcondition): when such a flush returns, the active memtable
\* is empty, the flushing slot is empty, the SSTable list grew by exactly the
\* SSTable of the old write index, write index and WAL index grew by 2, and
\* get(k) of every flushed key returns what it returned before the flush.
C9_FlushPostcondition ==
    FlushedAlone =>
        /\ DOMAIN tree.active_memtable = {}
        /\ tree.flush_memtable = None
        /\ sstable_indices(tree)
               = Append(hist.pre_flush.indices, hist.pre_flush.write_sstable_index)
        /\ tree.write_sstable_index = hist.pre_flush.write_sstable_index + 2
        /\ tree.memtable_index = hist.pre_flush.memtable_index + 2
        /\ \A k \in DOMAIN hist.pre_flush.memtable :
               get(tree, disk, k) = Some(hist.pre_flush.memtable[k].data)

\* A crash took place while a flush was in flight (between its memtable swap
\* and the removal of the old WAL), nothing else was, and open_or_create has
\* run on the directory since.
FlushCrashRecovered ==
    /\ hist.crash.kind = "crash" /\ hist.crash.recovery # "pending"
    /\ hist.crash.flusher # "none"
    /\ hist.crash.client = "idle"
    /\ hist.crash.compactor.pc = "idle"

\* Every record of a WAL file of the directory d0 is still in a WAL file or
\* in an SSTable data file of the directory d.
WalEntriesKept(d0, d) ==
    \A i \in DOMAIN d0.memtable : \A e \in Range(d0.memtable[i]) :
        \/ \E j \in DOMAIN d.memtable : e \in Range(d.memtable[j])
        \/ \E j \in DOMAIN d.data : e \in Range(d.data[j])

\* C5 (flush crash convergence): after a crash at any point of a flush,
\* open_or_create succeeds, get answers for every key what it answered before
\* the crash, and no WAL record absent from every SSTable file is lost.
C5_FlushCrashConvergence ==
    FlushCrashRecovered =>
        /\ hist.crash.recovery = "ok"
        /\ \A k \in conf.keys : get(tree, disk, k) = hist.crash.answers[k]
        /\ WalEntriesKept(hist.crash.disk, disk)

\* compact has returned, and no set, delete or flush ran while it did.
CompactedAlone ==
    /\ tree.open /\ compactor.pc = "done"
    /\ hist.pre_compact # None
    /\ ~hist.set_during_compact
    /\ client.pc = "idle" /\ caller.pc = "idle"
    /\ flusher.pc = "none" /\ spawned = 0

\* C6 (compaction preserves visibility): get(k) after a compaction equals
\* get(k) before it, unless remove_tombstones is set and the value visible
\* before was the tombstone, and then the key is not found afterwards.
C6_CompactionVisibility ==
    CompactedAlone =>
        \A k \in conf.keys :
            LET before == hist.pre_compact[k]
                after == get(tree, disk, k)
            IN IF compactor.remove_tombstones /\ before = Some(TOMBSTONE)
               THEN after \in {None, Some(TOMBSTONE)}
               ELSE after = before

\* A crash took place while a compaction was in flight and nothing else
\* was, and open_or_create has run on the directory since.
CompactCrashRecovered ==
    /\ hist.crash.kind = "crash" /\ hist.crash.recovery # "pending"
    /\ hist.crash.compactor.pc # "idle"
    /\ hist.crash.flusher = "none" /\ hist.crash.spawned = 0
    /\ hist.crash.client = "idle"

\* The intent file of the compaction was written in full before the crash.
IntentWritten(c) ==
    c.pc \in {"publish", "rename_index", "wait", "delete", "done"}

\* The list the compaction found, and the list it publishes.
PreList(cr) ==
    IF cr.compactor.pc \in {"rename_index", "wait", "delete", "done"}
    THEN cr.compactor.replaced ELSE cr.tree.sstables

PostList(cr) ==
    CompactPublishList(PreList(cr), cr.compactor.indices_to_compact,
                       cr.compactor.output_index, cr.compactor.items_written)

\* What get answers once the compaction has run to its end without a crash.
CrashFreeAnswers(cr) ==
    LET end == CompactComplete(cr.tree, cr.disk, cr.compactor)
    IN [k \in Keys |-> get(end.tree, end.disk, k)]

HasFiles(d, i) == i \in DOMAIN d.data /\ i \in DOMAIN d.index

NoFilesOf(d, i) == i \notin DOMAIN d.data /\ i \notin DOMAIN d.index

\* C7 (compaction is crash-atomic): after a crash during compact, reopening
\* yields the pre-compaction list with every source intact (crash before the
\* intent file was written) or the post-compaction list with the output in
\* place and every source removed (crash after); no .compact_action file
\* remains, and get answers for every key as in a crash-free run.
C7_CompactionCrashAtomic ==
    CompactCrashRecovered =>
        LET cr == hist.crash
            c == cr.compactor
            srcs == Range(c.indices_to_compact)
        IN /\ cr.recovery = "ok"
           /\ DOMAIN disk.compact_action = {}
           /\ IF IntentWritten(c)
              THEN /\ tree.sstables = PostList(cr)
                   /\ HasFiles(disk, c.output_index)
                   /\ \A i \in srcs : NoFilesOf(disk, i)
              ELSE /\ tree.sstables = PreList(cr)
                   /\ \A i \in srcs : HasFiles(disk, i)
           /\ \A k \in conf.keys : get(tree, disk, k) = CrashFreeAnswers(cr)[k]

\* C8 (reader safety during compaction): while a get_entry is going through
\* the SSTable list it cloned, the files of every SSTable it has yet to probe
\* exist: compact deletes no source under a reader.
C8_ReaderSafety ==
    (tree.open /\ client.pc = "get_probe") =>
        \A j \in 1..client.pos : HasFiles(disk, client.list[j].index)

\* For every key that two SSTables of the list both hold, the one further
\* down the list holds the version that is not older.
NewerLater(t, d) ==
    \A i, j \in 1..Len(t.sstables) :
        (i < j /\ HasFiles(d, t.sstables[i].index)
               /\ HasFiles(d, t.sstables[j].index)) =>
            \A a \in Range(d.data[t.sstables[i].index]) :
                \A b \in Range(d.data[t.sstables[j].index]) :
                    a.key = b.key => a.value.timestamp <= b.value.timestamp

\* C10 (read precedence): after any sequence of set, flush, compact, crash
\* and reopen the SSTable list is sorted by ascending index, and an SSTable
\* with a larger index holds no older version of a key than one with a
\* smaller index, so that the newest-to-oldest probe returns the newest.
C10_ReadPrecedence ==
    tree.open =>
        /\ \A i, j \in 1..Len(tree.sstables) :
               i < j => tree.sstables[i].index < tree.sstables[j].index
        /\ NewerLater(tree, disk)

\* C4 (crash-restart equivalence): for any sequence of set and delete, the
\* answers of get on a tree that was dropped and reopened after each
\* operation equal the answers on a tree that went through the same
\* sequence without being reopened.
C4_CrashRestartEquivalence ==
    (conf.reopen /\ hist.crash.kind = "crash" /\ hist.crash.recovery # "pending") =>
        /\ hist.crash.recovery = "ok"
        /\ \A k \in conf.keys :
               get(tree, disk, k) = get(hist.twin.tree, hist.twin.disk, k)

\* compact has written and closed its output and nothing else has happened
\* since: the sources and the output are all in the directory.
MergeWritten ==
    /\ tree.open /\ compactor.pc = "create_action"
    /\ compactor.output_index \in DOMAIN disk.compact_data

\* The entries of key k in a file.
EntriesOf(file, k) == {j \in 1..Len(file) : file[j].key = k}

\* The inputs of the compaction in flight that hold key k.
Holders(k) ==
    {i \in Range(compactor.indices_to_compact) : EntriesOf(disk.data[i], k) # {}}

\* C11 (compaction keeps the newest version): for every key held by more
\* than one input, the output holds exactly one entry of the key, and it is
\* the entry of the input with the greatest SSTable index, in whatever order
\* the inputs are listed and whatever the timestamps (a tombstone that
\* remove_tombstones drops is left aside).
C11_CompactionKeepsNewest ==
    MergeWritten =>
        \A k \in conf.keys :
            Cardinality(Holders(k)) > 1 =>
                LET top == CHOOSE i \in Holders(k) : \A j \in Holders(k) : j <= i
                    e == disk.data[top][CHOOSE j \in EntriesOf(disk.data[top], k) : TRUE]
                    out == disk.compact_data[compactor.output_index]
                IN (compactor.remove_tombstones /\ e.value.data = TOMBSTONE)
                   \/ /\ Cardinality(EntriesOf(out, k)) = 1
                      /\ \A j \in EntriesOf(out, k) : out[j] = e

\* The page of a stream at offset p: its bytes from p on, the last page
\* padded with zeros.
StreamPage(stream, p) ==
    [j \in 1..PAGE_SIZE |-> IF p + j <= Len(stream) THEN stream[p + j] ELSE 0]

\* The pages one side of the writer has cached mirror its stream.
Mirrors(side, stream) ==
    \A p \in 0..Len(stream) :
        (p % PAGE_SIZE = 0 /\ p < side.written) =>
            /\ p \in DOMAIN side.cache
            /\ side.cache[p] = StreamPage(stream, p)

SizeAgrees(d, s) ==
    /\ s.index \in DOMAIN d.index /\ s.index \in DOMAIN d.data
    /\ d.index[s.index] = s.size
    /\ Len(d.data[s.index]) = s.size

\* C13 (index size law): while no compaction is at work on the files, every
\* SSTable of the tree's list has a recorded size n, an index file of exactly
\* n EntryOffset records and a data file of exactly n entries; so it is right
\* after open_or_create has recovered from a crash in the middle of a flush.
C13_IndexSizeLaw ==
    (tree.open /\ compactor.pc = "idle") =>
        \A j \in 1..Len(tree.sstables) : SizeAgrees(disk, tree.sstables[j])

\* The greatest index of a data file of the directory d.
MaxDataIndex(d) == CHOOSE x \in DOMAIN d.data : \A y \in DOMAIN d.data : x >= y

\* C14 (write index after open): after open_or_create, write_sstable_index is
\* 0 when no SSTable exists, the greatest SSTable index plus 2 when that is
\* even and plus 1 when it is odd; it is even and above every SSTable index.
C14_WriteIndexAfterOpen ==
    (tree.open /\ hist.crash.recovery = "ok") =>
        /\ DOMAIN disk.data = {} => tree.write_sstable_index = 0
        /\ DOMAIN disk.data # {} =>
              tree.write_sstable_index =
                  IF MaxDataIndex(disk) % 2 = 0 THEN MaxDataIndex(disk) + 2
                  ELSE MaxDataIndex(disk) + 1
        /\ tree.write_sstable_index % 2 = 0
        /\ \A i \in DOMAIN disk.data : tree.write_sstable_index > i

\* Opened on a directory whose greatest SSTable index is odd, with an even
\* one below it.
C14_Witness ==
    /\ tree.open /\ hist.crash.recovery = "ok"
    /\ DOMAIN disk.data = {0, 3}
    /\ tree.write_sstable_index = 4

\* The process stopped with two WAL files in the directory, and
\* open_or_create has run on that directory since.
TwoWalRecovered ==
    /\ hist.crash.kind = "crash" /\ hist.crash.recovery # "pending"
    /\ Cardinality(DOMAIN hist.crash.disk.memtable) = 2

\* What open_or_create owes on the directory d0 with the WAL files i < j.
RecoversTwoWals(d0, i, j, capacity) ==
    LET r == open_or_create(d0, capacity)
        mi == read_memtable_from_wal_file(d0.memtable[i], capacity).memtable
        mj == read_memtable_from_wal_file(d0.memtable[j], capacity).memtable
    IN /\ r.ok
       /\ i \notin DOMAIN r.disk.memtable
       /\ \E p \in 1..Len(r.tree.sstables) : r.tree.sstables[p].index = i
       /\ i \in DOMAIN r.disk.data
       /\ r.disk.data[i] = MemtableEntries(mi)
       /\ \A k \in DOMAIN mi :
              get(r.tree, r.disk, k) =
                  GetOfEntry(Some(IF k \in DOMAIN mj THEN mj[k] ELSE mi[k]))
       /\ r.tree.memtable_index = j
       /\ r.tree.active_memtable = mj

\* C15 (recovery from two WAL files): open_or_create on a directory with
\* the WAL files i < j, whatever the interrupted flush did to the SSTable
\* files, returns a tree without WAL i, with SSTable i in its list holding
\* exactly the entries of WAL i, readable with get, with j as the current
\* WAL index and the contents of WAL j as the active memtable.
C15_TwoWalRecovery ==
    TwoWalRecovered =>
        LET wals == DOMAIN hist.crash.disk.memtable
            i == CHOOSE x \in wals : \A y \in wals : x <= y
            j == CHOOSE x \in wals : \A y \in wals : x >= y
        IN RecoversTwoWals(hist.crash.disk, i, j, conf.capacity)

\* The number of flushes between their memtable swap and their clearing of
\* the flushing slot: that of the caller of flush(), and that of a task
\* spawned by set.
FlushesInFlight ==
    (IF caller.pc = "flushing" THEN 1 ELSE 0)
    + (IF flusher.pc # "none" /\ flusher.owner = "spawned" THEN 1 ELSE 0)

\* A step leaves an occupied flushing slot as it is or clears it.
SlotKept ==
    tree.flush_memtable.kind = "some" =>
        \/ tree'.flush_memtable = tree.flush_memtable
        \/ tree'.flush_memtable.kind = "none"

\* C17 (one flush in flight): whatever the interleaving of flush() calls and
\* of flushes spawned by set, at most one flush is between its memtable swap
\* and its clearing of the flushing slot, the slot is occupied exactly while
\* one is, and no step replaces the memtable of an occupied slot by another.
C17_OneFlushInFlight ==
    /\ [](tree.open =>
            /\ FlushesInFlight <= 1
            /\ (FlushesInFlight = 1) = (tree.flush_memtable.kind = "some")
            /\ (FlushesInFlight = 1) = (flusher.pc # "none"))
    /\ [][SlotKept]_vars

\* A flush spawned by set is in flight, a flush() call waits for the slot,
\* and the active memtable has entries again.
C17_Witness ==
    /\ flusher.pc # "none" /\ flusher.owner = "spawned"
    /\ caller.pc = "flush_wait"
    /\ DOMAIN tree.active_memtable # {}

\* The indices of the WAL files of the directory d.
WalIndices(d) == DOMAIN d.memtable

\* A step of an open tree that adds a WAL file to the directory adds the one
\* whose index is the greatest index there was plus 2.
WalCreatedNext ==
    (tree.open /\ tree'.open /\ WalIndices(disk') \ WalIndices(disk) # {}) =>
        /\ WalIndices(disk) # {}
        /\ WalIndices(disk') \ WalIndices(disk) =
               {(CHOOSE x \in WalIndices(disk) :
                     \A y \in WalIndices(disk) : x >= y) + 2}

\* C16 (WAL files): across set, flush, compaction, crash and reopen, the
\* directory holds at most two WAL files, every WAL index is even, and a
\* flush creates the WAL whose index is the previous WAL index plus 2.
C16_WalFiles ==
    /\ [](/\ Cardinality(WalIndices(disk)) <= 2
          /\ \A i \in WalIndices(disk) : i % 2 = 0)
    /\ [][WalCreatedNext]_vars

\* After a crash and a reopen, a flush has created WAL 4 beside WAL 2.
C16_Witness ==
    /\ hist.crashes > 0 /\ tree.open
    /\ flusher.pc = "create_files"
    /\ WalIndices(disk) = {2, 4}

\* send_sharded_request has built the replica list of a request.
Requested == dbclient.pc \in {"sending", "done"}

\* No two elements of the sequence q are equal.
Distinct(q) == \A i \in 1..Len(q), j \in 1..Len(q) : i # j => q[i] # q[j]

RingAddresses == [i \in 1..Len(dbclient.hash_ring) |-> dbclient.hash_ring[i].address]

\* C18 (ring coverage): for every key, every ring of distinct addresses and
\* every replication factor N, the replica list built by
\* send_sharded_request has exactly min(N, ring_size) addresses, all distinct.
C18_RingCoverage ==
    (Requested /\ Distinct(RingAddresses)) =>
        /\ Len(dbclient.addresses) =
               Min(dbclient.replication_factor, Len(dbclient.hash_ring))
        /\ Distinct(dbclient.addresses)

\* A replication factor above the size of a ring of several nodes: the list
\* stops where the walk comes back to its start.
C18_Witness ==
    /\ Requested /\ Distinct(RingAddresses)
    /\ Len(dbclient.hash_ring) = 2
    /\ dbclient.replication_factor > 2
    /\ Len(dbclient.addresses) = 2
    /\ dbclient.addresses[1] = dbclient.hash_ring[2].address

\* The ring position p (from 1) holds the smallest hash that is >= h, or is
\* the first position when every hash of the ring is below h.
SmallestAtOrAbove(hash_ring, h, p) ==
    IF \A q \in 1..Len(hash_ring) : hash_ring[q].hash < h THEN p = 1
    ELSE /\ hash_ring[p].hash >= h
         /\ \A q \in 1..Len(hash_ring) :
                hash_ring[q].hash >= h => hash_ring[q].hash >= hash_ring[p].hash

\* C19 (ring placement): the ring built by from_seed_nodes is ascending by
\* hash; the first address of the replica list of a key of hash h is the ring
\* entry with the smallest hash >= h, or the entry at index 0 when every hash
\* is below h, and the other replicas follow it in ring order, wrapping.
C19_RingPlacement ==
    dbclient.pc # "none" =>
        /\ \A i \in 1..Len(dbclient.hash_ring), j \in 1..Len(dbclient.hash_ring) :
               i < j => dbclient.hash_ring[i].hash <= dbclient.hash_ring[j].hash
        /\ (Requested /\ dbclient.addresses # << >>) =>
               \E p \in 1..Len(dbclient.hash_ring) :
                   /\ SmallestAtOrAbove(dbclient.hash_ring, dbclient.hash, p)
                   /\ \A i \in 1..Len(dbclient.addresses) :
                          dbclient.addresses[i] =
                              dbclient.hash_ring[((p - 1 + i - 1)
                                  % Len(dbclient.hash_ring)) + 1].address

\* Nodes listed in descending order of hash, a key whose hash falls between
\* two ring hashes, and a replica list that wraps past the end of the ring.
C19_Witness ==
    /\ Requested
    /\ Len(dbclient.hash_ring) = 3 /\ Distinct(RingAddresses)
    /\ dbclient.hash_ring[1].hash < dbclient.hash
    /\ dbclient.hash_ring[1].address > dbclient.hash_ring[2].address
    /\ dbclient.hash_ring[2].address > dbclient.hash_ring[3].address
    /\ dbclient.addresses =
           <<dbclient.hash_ring[2].address, dbclient.hash_ring[3].address,
             dbclient.hash_ring[1].address>>

\* Every address contacted so far failed.
AllFailed == \A i \in 1..Len(dbclient.contacted) : ~dbclient.contacted[i].ok

\* C20 (replica fan-out): send_request contacts the addresses in list order;
\* it stops at the first that answers and returns its response; when all
\* fail it returns one error holding one sub-error per address in list
\* order; on an empty list it returns the no-addresses error and contacts
\* no one.
C20_ReplicaFanOut ==
    Requested =>
        /\ Len(dbclient.contacted) <= Len(dbclient.addresses)
        /\ \A i \in 1..Len(dbclient.contacted) :
               dbclient.contacted[i].address = dbclient.addresses[i]
        /\ \A i \in 1..Len(dbclient.contacted) :
               ~dbclient.contacted[i].ok \/ i = Len(dbclient.contacted)
        /\ dbclient.pc = "sending" => AllFailed /\ dbclient.result = None
        /\ dbclient.pc = "done" =>
               IF dbclient.addresses = << >>
               THEN dbclient.result = NoAddresses /\ dbclient.contacted = << >>
               ELSE IF AllFailed
               THEN /\ Len(dbclient.contacted) = Len(dbclient.addresses)
                    /\ dbclient.result = SendRequestToCluster(
                           [i \in 1..Len(dbclient.addresses) |->
                               [kind |-> dbclient.contacted[i].kind,
                                address |-> dbclient.addresses[i]]])
               ELSE dbclient.result =
                        Some([from |-> dbclient.addresses[Len(dbclient.contacted)]])

\* Three replicas, the first two fail in different ways and the third does
\* too: the error returned holds the three of them.
C20_Witness ==
    /\ dbclient.pc = "done"
    /\ Len(dbclient.addresses) = 3
    /\ AllFailed
    /\ dbclient.result.kind = "error"
    /\ Len(dbclient.result.errors) = 3
    /\ dbclient.result.errors[1].kind # dbclient.result.errors[2].kind

\* C21 (set returns): under fair scheduling every set that has been called
\* returns; a set that waits on a full memtable goes on, because a flush is
\* under way or spawned whenever the active memtable of an open tree is
\* full, also right after open_or_create has read a WAL of as many entries
\* as the memtable holds.
C21_SetReturns ==
    /\ [](tree.open /\ memtable_full(tree) => spawned > 0 \/ flusher.pc # "none")
    /\ (client.pc = "set_wait" ~> client.pc = "idle")

\* The keys held by the data file of SSTable i.
KeysOf(d, i) == {d.data[i][j].key : j \in 1..Len(d.data[i])}

\* C23 (binary search): over an SSTable of n >= 1 entries with distinct keys
\* in ascending order, the search for a key returns the entry of that key
\* when it is one of the n keys, at whatever position, and none otherwise.
C23_BinarySearch ==
    (client.pc = "got" /\ DOMAIN disk.data = {0}
        /\ DOMAIN tree.active_memtable = {}) =>
        IF client.key \in KeysOf(disk, 0)
        THEN client.result = Some(EntryValue(1, 1))
        ELSE client.result = None

\* What get_entry owes for a key of the memtable being flushed: the entry of
\* the active memtable when it has one, else the entry being flushed.
DuringFlush(t, k) ==
    Some(IF k \in DOMAIN t.active_memtable THEN t.active_memtable[k]
         ELSE t.flush_memtable.v[k])

\* A step that empties the flushing slot of a tree that stays open publishes
\* in the same step an SSTable new to the list whose files hold exactly the
\* entries of the slot.
SlotHandedOver ==
    (tree.flush_memtable.kind = "some" /\ tree'.flush_memtable.kind = "none"
        /\ tree'.open) =>
        /\ Len(tree'.sstables) = Len(tree.sstables) + 1
        /\ LET new == tree'.sstables[Len(tree'.sstables)]
           IN /\ \A j \in 1..Len(tree.sstables) : tree.sstables[j].index # new.index
              /\ new.index \in DOMAIN disk'.data
              /\ disk'.data[new.index] = MemtableEntries(tree.flush_memtable.v)
              /\ new.size = Cardinality(DOMAIN tree.flush_memtable.v)

\* C24 (visibility during flush): while a flush is between its swap and its
\* end, get_entry of a key of the memtable being flushed, and every get that
\* has run in between, gives the flushed entry, or the entry of the new
\* active memtable when it holds the key; and the slot is emptied only in the
\* step that publishes the SSTable, so that no state has such a key in
\* neither.
C24_VisibleDuringFlush ==
    /\ [](tree.open /\ tree.flush_memtable.kind = "some" =>
            /\ flusher.pc # "none"
            /\ \A k \in DOMAIN tree.flush_memtable.v :
                   /\ get_entry(tree, disk, k) = DuringFlush(tree, k)
                   /\ (client.pc = "got" /\ client.key = k) =>
                          client.result = DuringFlush(tree, k))
    /\ [][SlotHandedOver]_vars

\* A get of a key that is being flushed and that a set has written again
\* since has returned the newer entry, while the SSTable is being written.
C24_Witness ==
    /\ flusher.pc = "write" /\ flusher.written = 1
    /\ client.pc = "got"
    /\ client.key \in DOMAIN tree.flush_memtable.v
    /\ client.key \in DOMAIN tree.active_memtable
    /\ client.result = Some(tree.active_memtable[client.key])
    /\ tree.active_memtable[client.key] # tree.flush_memtable.v[client.key]


\* The multiples of PAGE_SIZE that can follow a record of the sizes drawn.
Multiples == {i * PAGE_SIZE : i \in 0..(MaxEntrySize + 1)}

\* C26: the padded size of a WAL record of s bytes, by which a set advances
\* the WAL offset and which its write covers, is the smallest multiple of
\* PAGE_SIZE that is strictly greater than s: a record of an exact multiple
\* of PAGE_SIZE bytes occupies s + PAGE_SIZE bytes.
C26_RecordPadding ==
    wal.open =>
        \A n \in 1..Len(wal.records) :
            LET r == wal.records[n]
            IN /\ r.advance \in Multiples
               /\ r.advance > r.size
               /\ \A m \in Multiples : m > r.size => r.advance <= m
               /\ r.advance = size_padded(r.size)
               /\ n \notin wal.pending /\ ~wal.closed =>
                      /\ Len(wal.file) * PAGE_SIZE >= r.offset + r.advance
                      /\ \A j \in 1..(r.advance \div PAGE_SIZE) :
                             wal.file[r.offset \div PAGE_SIZE + j] \in
                                 {RecordPage(n, j), ZeroPg}

\* A written record of exactly PAGE_SIZE bytes, with the offset two pages on.
C26_Witness ==
    /\ wal.open
    /\ \E n \in 1..Len(wal.records) :
           /\ wal.records[n].size = PAGE_SIZE
           /\ n \notin wal.pending
           /\ wal.records[n].advance = 2 * PAGE_SIZE

\* C26 as stated: the padded size is the smallest multiple of PAGE_SIZE that
\* is greater than or equal to s.
C26_SmallestAtOrAbove ==
    wal.open =>
        \A n \in 1..Len(wal.records) :
            wal.records[n].advance = RoundUp(wal.records[n].size)

\* The bytes the write of record n covers: from its offset, its padded size.
RangeEnd(n) == wal.records[n].offset + size_padded(wal.records[n].size)

\* C25: the sets on one WAL file take offset ranges that are page-aligned,
\* disjoint and contiguous, in the order of their memtable inserts, whatever
\* the order in which their writes complete; wal_offset is a multiple of
\* PAGE_SIZE in every state; once the writes are done, replaying the file in
\* offset order gives, for every key, the value the memtable holds.
C25_WalAppendOrder ==
    wal.open =>
        /\ wal.wal_offset % PAGE_SIZE = 0
        /\ \A n \in 1..Len(wal.records) :
               /\ wal.records[n].offset % PAGE_SIZE = 0
               /\ wal.records[n].offset = IF n = 1 THEN 0 ELSE RangeEnd(n - 1)
               /\ \A m \in 1..(n - 1) : RangeEnd(m) <= wal.records[n].offset
        /\ wal.wal_offset =
               IF wal.records = << >> THEN 0 ELSE RangeEnd(Len(wal.records))
        /\ wal.pending = {} /\ ~wal.closed =>
               WalkWal(wal.file, wal.records, 0, EmptyMemtable) = {wal.memtable}

\* Three sets, a key set twice, a later write completed before an earlier
\* one, and all the writes done.
C25_Witness ==
    /\ wal.open /\ ~wal.closed
    /\ wal.reordered
    /\ wal.pending = {}
    /\ Len(wal.records) = MaxRecords
    /\ \E m, n \in 1..Len(wal.records) :
           /\ m < n
           /\ wal.records[m].key = wal.records[n].key
           /\ wal.records[m].value.data # wal.records[n].value.data
           /\ wal.records[m].size > PAGE_SIZE

\* Every page of the encoding of record n is in the file.
Complete(n) ==
    LET first == wal.records[n].offset \div PAGE_SIZE
    IN \A j \in 1..DataPages(wal.records[n].size) :
           /\ first + j <= Len(wal.file)
           /\ wal.file[first + j] = RecordPage(n, j)

\* The last of the complete records of key k.
LastComplete(k) ==
    CHOOSE n \in 1..Len(wal.records) :
        /\ Complete(n) /\ wal.records[n].key = k
        /\ \A m \in 1..Len(wal.records) :
               Complete(m) /\ wal.records[m].key = k => m <= n

Inputs == {compactor.action.deletes[j].index :
               j \in 1..Len(compactor.action.deletes)}

\* C28: applying a compaction action, all deletes then all renames, to a
\* directory where any prefix of its renames and any subset of its deletes
\* are already done gives the files that applying it once to the untouched
\* directory gives: the inputs removed, the output under its final names.  A
\* second application changes nothing, and a delete target or rename source
\* that is missing is skipped.
C28_ReplayIdempotent ==
    (compactor.pc = "stopped" /\ compactor.runs > 0) =>
        LET b == compactor.before
            o == compactor.action.renames
        IN /\ disk = run_compaction_action(b, compactor.action)
           /\ disk.data = [i \in ((DOMAIN b.data) \ Inputs) \cup {o} |->
                              IF i = o THEN b.compact_data[o] ELSE b.data[i]]
           /\ disk.index = [i \in ((DOMAIN b.index) \ Inputs) \cup {o} |->
                               IF i = o THEN b.compact_index[o] ELSE b.index[i]]
           /\ disk.compact_data = NoFiles /\ disk.compact_index = NoFiles

\* The action applied a second time to a directory that had one rename and
\* some, not all, of the deletes done when it was applied first.
C28_Witness ==
    /\ compactor.pc = "stopped" /\ compactor.runs = 2
    /\ compactor.renamed = 1
    /\ Cardinality(Inputs) > 1
    /\ Cardinality(DOMAIN compactor.before.data) > Cardinality(Inputs)

\* The indices of a list, as a set.
IndexSet(sstables) == {sstables[i].index : i \in 1..Len(sstables)}

\* The list current when compact published, less the inputs, plus the output.
Published ==
    (IndexSet(compactor.replaced) \ Range(compactor.indices_to_compact))
        \cup {compactor.output_index}

Ascending(indices) ==
    \A i, j \in 1..Len(indices) : i < j => indices[i] <= indices[j]

\* C29: the step of compact that publishes replaces the list current at that
\* moment, which holds every SSTable a flush published while the compaction
\* was merging, by that list less the inputs plus output_index, sorted
\* ascending; when compact returns the list holds those SSTables and no
\* input; the step of flush that publishes keeps every SSTable of the list,
\* those a compaction published included.
C29_CompactionPublish ==
    [][/\ (compactor.pc = "publish" /\ compactor'.pc = "rename_index") =>
              /\ Ascending(sstable_indices(tree'))
              /\ IndexSet(tree'.sstables) =
                     (IndexSet(tree.sstables)
                          \ Range(compactor.indices_to_compact))
                         \cup {compactor.output_index}
       /\ (compactor.pc # "done" /\ compactor'.pc = "done") =>
              /\ Published' \subseteq IndexSet(tree'.sstables)
              /\ IndexSet(tree'.sstables)
                     \cap Range(compactor'.indices_to_compact) = {}
       /\ (flusher.pc = "finish" /\ flusher'.pc = "none") =>
              /\ IndexSet(tree.sstables) \subseteq IndexSet(tree'.sstables)
              /\ tree.write_sstable_index \in IndexSet(tree'.sstables)
      ]_vars

\* compact has returned; the list it replaced held an SSTable that a flush
\* published after compact was called, and the list holds it still.
C29_Witness ==
    /\ compactor.pc = "done"
    /\ \E i \in IndexSet(compactor.replaced) :
           /\ i \notin Range(compactor.at_call)
           /\ i \in IndexSet(tree.sstables)
    /\ compactor.output_index < 2

\* C29 as stated: when compact returns, the list is the list current at
\* publication less the inputs plus output_index, sorted ascending.
C29_ListAtReturn ==
    [][(compactor.pc # "done" /\ compactor'.pc = "done") =>
           /\ Ascending(sstable_indices(tree'))
           /\ IndexSet(tree'.sstables) = Published'
      ]_vars

\* The versions of key k the inputs hold, each with the position of its
\* input in the list given to compact.
Versions(k) ==
    UNION {{[entry |-> disk.data[compactor.indices_to_compact[p]][j],
             index |-> p] :
                j \in EntriesOf(disk.data[compactor.indices_to_compact[p]], k)} :
           p \in 1..Len(compactor.indices_to_compact)}

\* The version the merge keeps: the one every other version pops before.
Kept(k) ==
    CHOOSE a \in Versions(k) : \A b \in Versions(k) \ {a} : PopsBefore(b, a)

\* The entry of the list for the output of the compaction in flight.
OutputSSTables ==
    {i \in 1..Len(tree.sstables) :
         tree.sstables[i].index = compactor.output_index}

TreeFrame(t) ==
    <<t.active_memtable, t.flush_memtable, t.memtable_index, t.wal_file,
      t.wal_offset, t.write_sstable_index>>

\* The SSTable files of the directory but those of the indices in S.
FilesBut(d, S) ==
    <<[i \in (DOMAIN d.data) \ S |-> d.data[i]],
      [i \in (DOMAIN d.index) \ S |-> d.index[i]]>>

\* C31: every step of compact leaves the active memtable, the flushing
\* memtable, the WAL index, the WAL file and offset and write_sstable_index
\* unchanged, leaves the WAL files unchanged, and leaves untouched every
\* SSTable file whose index is neither an input nor the output.
C31_CompactionFrame ==
    [][compactor' # compactor =>
           LET c == IF compactor.pc = "idle" THEN compactor' ELSE compactor
               S == Range(c.indices_to_compact) \cup {c.output_index}
           IN /\ TreeFrame(tree') = TreeFrame(tree)
              /\ disk'.memtable = disk.memtable
              /\ FilesBut(disk', S) = FilesBut(disk, S)
      ]_vars

\* compact has returned with an SSTable left out of its inputs still in the
\* list and an entry in the active memtable.
C31_Witness ==
    /\ tree.open /\ compactor.pc = "done"
    /\ tree.active_memtable # EmptyMemtable
    /\ \E i \in 1..Len(tree.sstables) :
           /\ tree.sstables[i].index \notin Range(compactor.indices_to_compact)
           /\ tree.sstables[i].index # compactor.output_index

\* The entries of the memtable of the failed flush answer get_entry, but
\* where the active memtable holds the key.
FailedReadable ==
    \A k \in DOMAIN flusher.memtable :
        get_entry(tree, disk, k) =
            Some(IF k \in DOMAIN tree.active_memtable
                 THEN tree.active_memtable[k] ELSE flusher.memtable[k])

\* C32: after a flush has returned an error at one of its I/O steps, the
\* entries of its memtable are still read by get, and the flushing slot is
\* not left occupied with no flush to clear it, so that later flushes and
\* sets complete.
C32_FailedFlush ==
    (tree.open /\ flusher.pc = "failed") =>
        /\ FailedReadable
        /\ FlushSlotEmpty(tree)

\* C33: after compact has returned an error at one of its steps, every
\* SSTable of the published list has its data file and its index file in
\* the directory under their final names, and get answers for every key as
\* it did before the call.
C33_CompactionError ==
    (tree.open /\ compactor.pc = "failed") =>
        /\ \A i \in 1..Len(tree.sstables) :
               /\ tree.sstables[i].index \in DOMAIN disk.data
               /\ tree.sstables[i].index \in DOMAIN disk.index
        /\ \A k \in conf.keys : get(tree, disk, k) = hist.pre_compact[k]

\* A flush leaves its wait loop in this step and finds the active memtable
\* empty.
EntersEmpty ==
    /\ FlushSlotEmpty(tree)
    /\ DOMAIN tree.active_memtable = {}
    /\ \/ caller.pc = "flush_wait" /\ caller'.pc # "flush_wait"
       \/ spawned' < spawned

\* C34: a flush that finds the active memtable empty after its wait returns
\* in the same step and leaves the SSTable list, write_sstable_index, the
\* WAL index, the WAL file and offset, the memtables and every file of the
\* directory as they were.
C34_EmptyFlush ==
    [][EntersEmpty =>
          /\ caller' = IF spawned' < spawned THEN caller
                       ELSE [pc |-> "flushed"]
          /\ tree' = tree
          /\ disk' = disk
          /\ flusher' = flusher]_vars

\* A called flush has returned from an empty memtable, SSTables listed: no
\* flush was under way at the call and none has finished since.
C34_Witness ==
    /\ caller.pc = "flushed"
    /\ hist.pre_flush # None
    /\ DOMAIN hist.pre_flush.memtable = {}
    /\ ~hist.pre_flush.flushing
    /\ hist.pre_flush.write_sstable_index = tree.write_sstable_index
    /\ DOMAIN tree.active_memtable = {}
    /\ Len(tree.sstables) > 0

\* The entries of the active memtable.
ActiveLen(t) == Cardinality(DOMAIN t.active_memtable)

\* A step of a set from the end of its wait loop to the await of its WAL
\* write spawns one flush when it leaves the memtable full and none when it
\* does not; no other step spawns a flush.
SpawnOnFill ==
    IF clock' # clock
    THEN spawned' = spawned + (IF ActiveLen(tree') = tree.capacity THEN 1 ELSE 0)
    ELSE spawned' <= spawned

\* C35: set tasks, called flushes and spawned flushes interleaving in every
\* way, the active memtable never holds more entries than its capacity, no
\* set ends with the error of an insert into a full memtable, and a flush is
\* spawned exactly by each insert that fills the memtable.
C35_MemtableCapacity ==
    /\ [](/\ ActiveLen(tree) <= tree.capacity
          /\ client.pc = "tasks" =>
                 \A i \in DOMAIN client.task : client.task[i].pc # "error")
    /\ [][SpawnOnFill]_vars

\* The insert of one task has filled the active memtable again while the
\* memtable before it is still being flushed and a second task waits in the
\* loop.
C35_Witness ==
    /\ client.pc = "tasks"
    /\ ActiveLen(tree) = tree.capacity
    /\ tree.flush_memtable.kind = "some"
    /\ spawned = 1
    /\ \E i, j \in DOMAIN client.task :
           /\ client.task[i].pc = "set_wal"
           /\ client.task[j].pc = "set_wait"

\* The tree with the SSTables of recorded size 0 taken off its list.
NotEmptySSTable(sstable) == sstable.size # 0

WithoutEmpty(t) == [t EXCEPT !.sstables = SelectSeq(@, NotEmptySSTable)]

\* C36: with an SSTable of recorded size 0 on the list and no compaction
\* under way, get_entry for a key that neither memtable holds answers as it
\* would without the empty SSTables (not found, or the entry of an older
\* SSTable) and the search of the empty SSTable raises no error.
C36_EmptySSTableLookup ==
    (/\ tree.open /\ compactor.pc = "idle"
     /\ \E i \in 1..Len(tree.sstables) : tree.sstables[i].size = 0) =>
        \A k \in conf.keys :
            (/\ k \notin DOMAIN tree.active_memtable
             /\ tree.flush_memtable.kind = "some" =>
                    k \notin DOMAIN tree.flush_memtable.v) =>
                get_entry(tree, disk, k) = get_entry(WithoutEmpty(tree), disk, k)

\* C37: while a memtable is being flushed, the index of the WAL that holds
\* its entries (memtable_index as the flush found it) is the index of the
\* SSTable the flush writes (write_sstable_index), whatever sets, flushes,
\* compactions and reopenings came before.
C37_IndexPairing ==
    (tree.open /\ flusher.pc \in {"create_wal", "create_files", "write"}) =>
        flusher.flush_wal = tree.write_sstable_index
====
